---- MODULE Spec2Model ----
(***************************************************************************)
(* Model of the restaurant-scene newsletter engine: the provider           *)
(* fingerprint classifier (providers.ts), the candidate extractor and the  *)
(* enrichment orchestrator (enrich.ts), the provider submitters            *)
(* (providerSubmit.ts), the tiered subscription orchestrator               *)
(* (subscribe.ts) and the D1 persistence helpers (db.ts).                  *)
(*                                                                         *)
(* HTML is modelled as a sequence of elements.  Each element name stands   *)
(* for one concrete snippet, listed below with the regexes of the source   *)
(* that match it.  A regex .match() is the first matching element in       *)
(* document order, a .test() is the existence of one.                      *)
(***************************************************************************)
EXTENDS Integers, Sequences, FiniteSets, TLC

\* JavaScript null / undefined for a nullable string column or field.
NULL == "<null>"

\* JavaScript truthiness of a nullable string: null and "" are falsy.
Truthy(s) == s # NULL /\ s # ""

\* a || b on nullable strings.
OrElse(a, b) == IF Truthy(a) THEN a ELSE b

(***************************************************************************)
(* Element vocabulary.                                                     *)
(*  text         <p>Welcome to our restaurant ...</p>   (4 units long)     *)
(*  g_recaptcha  <div class="g-recaptcha"></div>                           *)
(*  cf_turnstile <div class="cf-turnstile"></div>                          *)
(*  mc_form      <form action="https://x.us1.list-manage.com/subscribe/    *)
(*               post?u=AAA&id=BBB"><input type="hidden" name="MMERGE1"    *)
(*               value="x"><input type="email" name="EMAIL"></form>        *)
(*  mc_script    <script src="https://mc.us1.list-manage.com/s.js">        *)
(*               </script>                                                 *)
(*  kl_form      <form action="https://a.klaviyo.com/subscribe"><input     *)
(*               type="email"></form>                                      *)
(*  kl_static    <script src="https://static.klaviyo.com/onsite/js/k.js">  *)
(*               </script>                                                 *)
(*  kl_inline    <script>window.klaviyoForms = []</script>                 *)
(*  kl_onsite    <script src="https://static.klaviyo.com/media/js/onsite/  *)
(*               onsite.js?company_id=KC1"></script>                       *)
(*  kl_list      <div data-klaviyo-list-id="L1"></div>                     *)
(*  cc_form      <form action="https://visitor.constantcontact.com/d.jsp"> *)
(*               <input type="text" name="ea"></form>                      *)
(*  cc_embed     <iframe src="https://lp.constantcontact.com/su/abc">      *)
(*  cc_link      <a href="https://visitor.constantcontact.com/optin">      *)
(*               Join our list</a>                                         *)
(*  ml_form      <form action="https://assets.mailerlite.com/jsonp/1/      *)
(*               forms/2/subscribe"><input type="email"></form>            *)
(*  ml_script    <script src="https://static.mailerlite.com/u.js"></script>*)
(*  ml_account   <script>ml('account', '12345')</script>                   *)
(*  ml_group     <div data-ml-group="G1"></div>                            *)
(*  bh_form      <form action="https://app.beehiiv.com/v1/PUB1/subscribe"> *)
(*               <input type="email"></form>                               *)
(*  bh_embed     <iframe src="https://embeds.beehiiv.com/abc">             *)
(*  bh_link      <a href="https://news.beehiiv.com/subscribe">Read</a>     *)
(*  sq_class     <div class="newsletter-form"></div>                       *)
(*  sq_form      <form class="newsletter-form" data-form-id="F1"><input    *)
(*               type="email"></form>                                      *)
(*  sq_word      <!-- This is Squarespace. -->                             *)
(*  sq_coll      <script>var x = {collectionId: "COL1"}</script>           *)
(*  sq_canonical <link rel="canonical" href="https://bistro.example/home"> *)
(*  sq_og        <meta property="og:url" content="https://og.example/x">   *)
(*  ss_link      <a href="https://foo.substack.com/">Read more</a>         *)
(*  ss_embed     <iframe src="https://bar.substack.com/embed">             *)
(*  plain_form   <form action="/signup"><input type="email" name="email">  *)
(*               </form>                                                   *)
(*  news_link    <a href="/newsletter">Our letter</a>                      *)
(*  inline_mc    <script>var u = "https://x.list-manage.com/subscribe/     *)
(*               post-json?u=AAA"</script>                                 *)
(***************************************************************************)
Elements ==
    {"text", "g_recaptcha", "cf_turnstile", "mc_form", "mc_script", "kl_form",
     "kl_static", "kl_inline", "kl_onsite", "kl_list", "cc_form", "cc_embed",
     "cc_link", "ml_form", "ml_script", "ml_account", "ml_group", "bh_form",
     "bh_embed", "bh_link", "sq_class", "sq_form", "sq_word", "sq_coll",
     "sq_canonical", "sq_og", "ss_link", "ss_embed", "plain_form", "news_link",
     "inline_mc"}

\* Length of an element's text, in units; html.length is the sum.
ElemLen(e) == IF e = "text" THEN 4 ELSE 1

RECURSIVE HtmlLength(_)
HtmlLength(html) ==
    IF html = <<>> THEN 0 ELSE ElemLen(Head(html)) + HtmlLength(Tail(html))

\* match.index of the i-th element: the offset at which it starts.
MatchIndex(html, i) == HtmlLength(SubSeq(html, 1, i - 1))

\* regex.test(html): some element of the document matches.
Test(html, S) == \E i \in 1..Len(html) : html[i] \in S

\* html.match(regex): the first matching element, NULL when there is none.
FirstMatch(html, S) ==
    IF Test(html, S)
    THEN html[CHOOSE i \in 1..Len(html) :
                 /\ html[i] \in S
                 /\ \A j \in 1..(i - 1) : html[j] \notin S]
    ELSE NULL

\* A Record<string, string>: a function from keys to values.
EmptyParams == [k \in {} |-> ""]

\* { ...a, ...b } and Object.assign(a, b): the keys of b win.
Merge(a, b) ==
    [k \in (DOMAIN a) \cup (DOMAIN b) |-> IF k \in DOMAIN b THEN b[k] ELSE a[k]]

\* params[key] = value
Put(p, key, value) == Merge(p, [k \in {key} |-> value])

(***************************************************************************)
(* providers.ts: the matchers and detectNewsletterProvider.                *)
(***************************************************************************)

\* The URL an element carries in its action / src / href attribute.
ElemUrl(e) ==
    CASE e = "mc_form"    -> "https://x.us1.list-manage.com/subscribe/post?u=AAA&id=BBB"
      [] e = "mc_script"  -> "https://mc.us1.list-manage.com/s.js"
      [] e = "kl_form"    -> "https://a.klaviyo.com/subscribe"
      [] e = "kl_static"  -> "https://static.klaviyo.com/onsite/js/k.js"
      [] e = "kl_onsite"  -> "https://static.klaviyo.com/media/js/onsite/onsite.js?company_id=KC1"
      [] e = "cc_form"    -> "https://visitor.constantcontact.com/d.jsp"
      [] e = "cc_embed"   -> "https://lp.constantcontact.com/su/abc"
      [] e = "cc_link"    -> "https://visitor.constantcontact.com/optin"
      [] e = "ml_form"    -> "https://assets.mailerlite.com/jsonp/1/forms/2/subscribe"
      [] e = "ml_script"  -> "https://static.mailerlite.com/u.js"
      [] e = "bh_form"    -> "https://app.beehiiv.com/v1/PUB1/subscribe"
      [] e = "bh_embed"   -> "https://embeds.beehiiv.com/abc"
      [] e = "bh_link"    -> "https://news.beehiiv.com/subscribe"
      [] e = "sq_canonical" -> "https://bistro.example"
      [] e = "sq_og"      -> "https://og.example"
      [] e = "ss_link"    -> "https://foo.substack.com/"
      [] e = "ss_embed"   -> "https://bar.substack.com/embed"
      [] e = "plain_form" -> "/signup"
      [] e = "news_link"  -> "/newsletter"
      [] e = "inline_mc"  -> "https://x.list-manage.com/subscribe/post-json?u=AAA"
      [] OTHER            -> NULL

\* The <form ...>...</form> elements of the vocabulary.
FormElements ==
    {"mc_form", "kl_form", "cc_form", "ml_form", "bh_form", "sq_form", "plain_form"}

\* new URL(url).searchParams.get(param), NULL when absent or unparsable.
tryUrlParam(url, param) ==
    IF url = ElemUrl("mc_form") /\ param = "u" THEN "AAA"
    ELSE IF url = ElemUrl("mc_form") /\ param = "id" THEN "BBB"
    ELSE NULL

\* The hidden inputs of a form: only the Mailchimp form carries one.
extractHiddenInputs(formHtml) ==
    IF formHtml = "mc_form" THEN [k \in {"MMERGE1"} |-> "x"] ELSE EmptyParams

\* The first form whose markup matches the pattern (given as the set of
\* elements the pattern matches).
findFormContaining(html, S) == FirstMatch(html, FormElements \cap S)

\* The URL captured by the first match of a regex, NULL when none matches.
MatchUrl(html, S) == ElemUrl(FirstMatch(html, S))

\* confidence += w when the regex matches.
Weight(html, S, w) == IF Test(html, S) THEN w ELSE 0

\* if (cond) params[key] = value
PutIf(cond, p, key, value) == IF cond THEN Put(p, key, value) ELSE p

\* The params of the Mailchimp form action: u and id of its URL, then the
\* hidden inputs of the first form that mentions list-manage.com.
MailchimpFormParams(html, endpoint) ==
    Merge(PutIf(Truthy(tryUrlParam(endpoint, "id")),
                PutIf(Truthy(tryUrlParam(endpoint, "u")), EmptyParams,
                      "u", tryUrlParam(endpoint, "u")),
                "id", tryUrlParam(endpoint, "id")),
          extractHiddenInputs(
              findFormContaining(html, {"mc_form", "mc_script", "inline_mc"})))

MailchimpDetect(html) ==
    [confidence |-> Weight(html, {"mc_form"}, 50) + Weight(html, {"mc_script"}, 30),
     endpoint   |-> MatchUrl(html, {"mc_form"}),
     params     |-> IF Test(html, {"mc_form"})
                    THEN MailchimpFormParams(html, MatchUrl(html, {"mc_form"}))
                    ELSE PutIf(Test(html, {"mc_script"}), EmptyParams,
                               "server", "us1")]

\* The Klaviyo matcher as it would be if the onsite script assigned its
\* weight (confidence = 10) where it should add it.
KlaviyoDetectOnsiteAssigns(html) ==
    [confidence |-> IF Test(html, {"kl_onsite"}) THEN 10
                    ELSE Weight(html, {"kl_form"}, 50)
                         + Weight(html, {"kl_static"}, 30)
                         + Weight(html, {"kl_inline"}, 20),
     endpoint   |-> OrElse(MatchUrl(html, {"kl_form"}),
                           IF Test(html, {"kl_onsite"})
                           THEN "https://a.klaviyo.com/api/v2/list/subscribe"
                           ELSE NULL),
     params     |-> PutIf(Test(html, {"kl_list"}),
                          PutIf(Test(html, {"kl_onsite"}), EmptyParams,
                                "company_id", "KC1"),
                          "list_id", "L1")]

KlaviyoDetect(html) ==
    [confidence |-> Weight(html, {"kl_form"}, 50)
                    + Weight(html, {"kl_static", "kl_onsite"}, 30)
                    + Weight(html, {"kl_inline"}, 20)
                    + Weight(html, {"kl_onsite"}, 10),
     endpoint   |-> OrElse(MatchUrl(html, {"kl_form"}),
                           IF Test(html, {"kl_onsite"})
                           THEN "https://a.klaviyo.com/api/v2/list/subscribe"
                           ELSE NULL),
     params     |-> PutIf(Test(html, {"kl_list"}),
                          PutIf(Test(html, {"kl_onsite"}), EmptyParams,
                                "company_id", "KC1"),
                          "list_id", "L1")]

ConstantContactDetect(html) ==
    [confidence |-> Weight(html, {"cc_form"}, 50) + Weight(html, {"cc_embed"}, 30)
                    + Weight(html, {"cc_link"}, 10),
     endpoint   |-> OrElse(MatchUrl(html, {"cc_form"}), MatchUrl(html, {"cc_embed"})),
     params     |-> EmptyParams]

MailerliteDetect(html) ==
    [confidence |-> Weight(html, {"ml_form"}, 50) + Weight(html, {"ml_script"}, 30)
                    + Weight(html, {"ml_account"}, 20),
     endpoint   |-> MatchUrl(html, {"ml_form"}),
     params     |-> PutIf(Test(html, {"ml_group"}),
                          PutIf(Test(html, {"ml_account"}), EmptyParams,
                                "account_id", "12345"),
                          "group_id", "G1")]

\* The first endpoint found: form action, then embed, then link.
BeehiivEndpoint(html) ==
    OrElse(MatchUrl(html, {"bh_form"}),
           OrElse(MatchUrl(html, {"bh_embed"}), MatchUrl(html, {"bh_link"})))

BeehiivDetect(html) ==
    [confidence |-> Weight(html, {"bh_form"}, 50) + Weight(html, {"bh_embed"}, 40)
                    + Weight(html, {"bh_link"}, 20),
     endpoint   |-> BeehiivEndpoint(html),
     \* /beehiiv\.com\/v1\/([^/"'?\s]+)/ matches the form's action only
     params     |-> PutIf(BeehiivEndpoint(html) = ElemUrl("bh_form"), EmptyParams,
                          "publication_id", "PUB1")]

SquarespaceConfidence(html) ==
    Weight(html, {"sq_class", "sq_form"}, 40)
    + Weight(html, {"sq_form"}, IF Test(html, {"sq_word"}) THEN 40 ELSE 10)
    + Weight(html, {"sq_coll"}, 10)

\* canonicalMatch?.[1] || ogMatch?.[1] || null
SquarespaceDomain(html) ==
    OrElse(MatchUrl(html, {"sq_canonical"}), MatchUrl(html, {"sq_og"}))

SquarespaceDetect(html) ==
    [confidence |-> SquarespaceConfidence(html),
     endpoint   |-> IF /\ SquarespaceConfidence(html) > 0
                       /\ Test(html, {"sq_form"})
                       /\ Truthy(SquarespaceDomain(html))
                    THEN SquarespaceDomain(html) \o "/api/form/FormSubmit"
                    ELSE NULL,
     params     |-> PutIf(Test(html, {"sq_coll"}),
                          PutIf(Test(html, {"sq_form"}), EmptyParams, "formId", "F1"),
                          "collectionId", "COL1")]

\* (endpoint || '').match(/https?:\/\/([^.]+)\.substack\.com/i)?.[1]
SubstackSubdomain(url) ==
    CASE url = ElemUrl("ss_link")  -> "foo"
      [] url = ElemUrl("ss_embed") -> "bar"
      [] OTHER                     -> NULL

\* The endpoint rewritten into the subscribe API of the URL's subdomain.
SubstackApi(url) ==
    IF Truthy(SubstackSubdomain(url))
    THEN "https://" \o SubstackSubdomain(url) \o ".substack.com/api/v1/free"
    ELSE url

\* The matcher as it would be if the embed's URL were taken before the
\* link's.
SubstackDetectEmbedFirst(html) ==
    [confidence |-> Weight(html, {"ss_link"}, 40) + Weight(html, {"ss_embed"}, 30),
     endpoint   |-> SubstackApi(OrElse(MatchUrl(html, {"ss_embed"}),
                                       MatchUrl(html, {"ss_link"}))),
     params     |-> PutIf(Truthy(SubstackSubdomain(OrElse(MatchUrl(html, {"ss_embed"}),
                                                          MatchUrl(html, {"ss_link"})))),
                          EmptyParams, "subdomain",
                          SubstackSubdomain(OrElse(MatchUrl(html, {"ss_embed"}),
                                                   MatchUrl(html, {"ss_link"}))))]

\* The link's URL is the endpoint, the embed's when there is no link; the
\* subdomain of that URL is kept and the endpoint rewritten.
SubstackDetect(html) ==
    [confidence |-> Weight(html, {"ss_link"}, 40) + Weight(html, {"ss_embed"}, 30),
     endpoint   |-> SubstackApi(OrElse(MatchUrl(html, {"ss_link"}),
                                       MatchUrl(html, {"ss_embed"}))),
     params     |-> PutIf(Truthy(SubstackSubdomain(OrElse(MatchUrl(html, {"ss_link"}),
                                                          MatchUrl(html, {"ss_embed"})))),
                          EmptyParams, "subdomain",
                          SubstackSubdomain(OrElse(MatchUrl(html, {"ss_link"}),
                                                   MatchUrl(html, {"ss_embed"}))))]

\* The registry, in its order.
matchers ==
    <<"mailchimp", "klaviyo", "constant_contact", "mailerlite", "beehiiv",
      "squarespace", "substack">>

\* matcher.detect(html); matched is confidence > 0.
MatcherDetect(name, html) ==
    CASE name = "mailchimp"        -> MailchimpDetect(html)
      [] name = "klaviyo"          -> KlaviyoDetect(html)
      [] name = "constant_contact" -> ConstantContactDetect(html)
      [] name = "mailerlite"       -> MailerliteDetect(html)
      [] name = "beehiiv"          -> BeehiivDetect(html)
      [] name = "squarespace"      -> SquarespaceDetect(html)
      [] name = "substack"         -> SubstackDetect(html)

\* The turn of the loop as it would be with >= in place of >: the last of
\* the matchers that tie is kept.
KeepBestLastTie(best, name, result) ==
    IF result.confidence > 0 /\ result.confidence >= best.confidence
    THEN [provider |-> name, directEndpoint |-> result.endpoint,
          confidence |-> result.confidence, extractedParams |-> result.params]
    ELSE best

\* One turn of the loop: the matcher's result replaces best when it matched
\* with a strictly higher confidence.
KeepBest(best, name, result) ==
    IF result.confidence > 0 /\ result.confidence > best.confidence
    THEN [provider |-> name, directEndpoint |-> result.endpoint,
          confidence |-> result.confidence, extractedParams |-> result.params]
    ELSE best

NoDetection ==
    [provider |-> NULL, directEndpoint |-> NULL, confidence |-> 0,
     extractedParams |-> EmptyParams]

\* The loop of detectNewsletterProvider over the first n matchers.
RECURSIVE DetectUpTo(_, _)
DetectUpTo(html, n) ==
    IF n = 0 THEN NoDetection
    ELSE KeepBest(DetectUpTo(html, n - 1), matchers[n],
                  MatcherDetect(matchers[n], html))

detectNewsletterProvider(html) == DetectUpTo(html, Len(matchers))

(***************************************************************************)
(* enrich.ts: extractNewsletterCandidates.                                 *)
(***************************************************************************)

\* PROVIDER_DOMAINS.some((d) => url.includes(d))
HasProviderDomain(url) ==
    url \in {ElemUrl("mc_form"), ElemUrl("mc_script"), ElemUrl("inline_mc"),
             ElemUrl("kl_form"), ElemUrl("kl_static"), ElemUrl("kl_onsite"),
             ElemUrl("cc_form"), ElemUrl("cc_embed"), ElemUrl("cc_link"),
             ElemUrl("ml_form"), ElemUrl("ml_script"),
             ElemUrl("bh_form"), ElemUrl("bh_embed"), ElemUrl("bh_link"),
             ElemUrl("ss_link"), ElemUrl("ss_embed")}

\* NEWSLETTER_KEYWORDS.test(markup), on the markup of a form or on a link's
\* text and URL.
HasKeywords(e) ==
    e \in {"mc_form", "kl_form", "ml_form", "bh_form", "sq_form", "plain_form",
           "cc_link", "bh_link", "news_link"}

\* type="email" or name="email" / name="EMAIL" in the form.
HasEmailInput(e) ==
    e \in {"mc_form", "kl_form", "ml_form", "bh_form", "sq_form", "plain_form"}

\* Elements whose text contains "src=" (they stop the inline-script regex).
SrcElements ==
    {"mc_script", "kl_static", "kl_onsite", "ml_script", "cc_embed", "bh_embed",
     "ss_embed"}

Candidate(url, score, source, formHtml, html, i) ==
    [url |-> url, score |-> score, source |-> source, formHtml |-> formHtml,
     index |-> MatchIndex(html, i), htmlLength |-> HtmlLength(html)]

\* The candidates one surface finds at element i (none or one).
FormActionAt(html, i) ==
    LET e == html[i]
        score == (IF HasProviderDomain(ElemUrl(e)) THEN 30 ELSE 0)
                 + (IF HasKeywords(e) THEN 20 ELSE 0)
                 + (IF HasEmailInput(e) THEN 10 ELSE 0)
    IN  IF e \in FormElements \ {"sq_form"} /\ score > 0
        THEN <<Candidate(ElemUrl(e), score, "form_action", e, html, i)>>
        ELSE <<>>

ActionlessFormAt(html, i) ==
    LET e == html[i]
        score == 10 + (IF HasKeywords(e) THEN 20 ELSE 0)
                    + (IF e = "sq_form" THEN 25 ELSE 0)
    IN  IF e = "sq_form" /\ HasEmailInput(e)
        THEN <<Candidate("#actionless-email-form", score, "form_action", e, html, i)>>
        ELSE <<>>

LinkAt(html, i) ==
    LET e == html[i]
        score == (IF HasProviderDomain(ElemUrl(e)) THEN 25 ELSE 0)
                 + (IF HasKeywords(e) THEN 15 ELSE 0)
    IN  IF e \in {"cc_link", "bh_link", "ss_link", "news_link"} /\ score > 0
        THEN <<Candidate(ElemUrl(e), score, "link", NULL, html, i)>>
        ELSE <<>>

EmbedAt(html, i) ==
    LET e == html[i]
    IN  IF e \in {"cc_embed", "bh_embed", "ss_embed"} /\ HasProviderDomain(ElemUrl(e))
        THEN <<Candidate(ElemUrl(e), 25, "embed", NULL, html, i)>>
        ELSE <<>>

ScriptSrcAt(html, i) ==
    LET e == html[i]
    IN  IF e \in {"mc_script", "kl_static", "kl_onsite", "ml_script"}
           /\ HasProviderDomain(ElemUrl(e))
        THEN <<Candidate(ElemUrl(e), 25, "script_tag", NULL, html, i)>>
        ELSE <<>>

\* An inline script matches only when no "src=" follows it in the document.
InlineScriptAt(html, i) ==
    LET e == html[i]
    IN  IF e = "inline_mc" /\ \A j \in (i + 1)..Len(html) : html[j] \notin SrcElements
        THEN <<Candidate(ElemUrl(e), 25, "inline_script", NULL, html, i)>>
        ELSE <<>>

SurfaceAt(surface, html, i) ==
    CASE surface = 1 -> FormActionAt(html, i)
      [] surface = 2 -> ActionlessFormAt(html, i)
      [] surface = 3 -> LinkAt(html, i)
      [] surface = 4 -> EmbedAt(html, i)
      [] surface = 5 -> ScriptSrcAt(html, i)
      [] surface = 6 -> InlineScriptAt(html, i)

\* One surface's scan of the first n elements, in document order.
RECURSIVE ScanSurface(_, _, _)
ScanSurface(surface, html, n) ==
    IF n = 0 THEN <<>>
    ELSE ScanSurface(surface, html, n - 1) \o SurfaceAt(surface, html, n)

\* The six scans, one after the other.
RECURSIVE ScanAll(_, _)
ScanAll(html, surface) ==
    IF surface = 0 THEN <<>>
    ELSE ScanAll(html, surface - 1) \o ScanSurface(surface, html, Len(html))

\* +15 when the match starts in the bottom 30% of the HTML.
FooterWeighted(c) ==
    IF 10 * c.index >= 7 * c.htmlLength THEN [c EXCEPT !.score = @ + 15] ELSE c

\* InsertSorted as it would be if the sort put a candidate in front of the
\* candidates of equal score.
RECURSIVE InsertSortedBeforeEqual(_, _)
InsertSortedBeforeEqual(sorted, c) ==
    IF sorted = <<>> THEN <<c>>
    ELSE IF Head(sorted).score > c.score
         THEN <<Head(sorted)>> \o InsertSortedBeforeEqual(Tail(sorted), c)
         ELSE <<c>> \o sorted

\* Insert c after every candidate that scores at least as much.
RECURSIVE InsertSorted(_, _)
InsertSorted(sorted, c) ==
    IF sorted = <<>> THEN <<c>>
    ELSE IF Head(sorted).score >= c.score
         THEN <<Head(sorted)>> \o InsertSorted(Tail(sorted), c)
         ELSE <<c>> \o sorted

\* candidates.sort((a, b) => b.score - a.score): stable, descending.
RECURSIVE SortByScore(_)
SortByScore(cs) ==
    IF cs = <<>> THEN <<>>
    ELSE InsertSorted(SortByScore(SubSeq(cs, 1, Len(cs) - 1)), cs[Len(cs)])

extractNewsletterCandidates(html) ==
    LET found == ScanAll(html, 6)
    IN  SortByScore([i \in 1..Len(found) |-> FooterWeighted(found[i])])

\* s.slice(0, n)
Slice(s, n) == IF s = NULL \/ Len(s) <= n THEN s ELSE SubSeq(s, 1, n)

(***************************************************************************)
(* Inputs of the environment: what an outbound request can come back with. *)
(***************************************************************************)

\* err.message of a rejected fetch or body read; "" is an Error without text.
ErrMessages == {"", "timeout"}

\* Status codes of a response to a submission POST.
PostStatuses == {200, 400}

\* Status codes of a response to a website GET; res.ok is 200..299.
FetchStatuses == {200, 404}

\* Body of a submission response as res.text() gives it; NULL is a failed read.
ResponseTexts == {NULL, "thanks"}

\* A POST either rejects (network failure) or resolves with a response.
PostOutcomes ==
    [failed : {TRUE}, message : ErrMessages, status : {0}, text : {NULL}]
    \cup [failed : {FALSE}, message : {NULL}, status : PostStatuses,
          text : ResponseTexts]

\* A website GET either rejects or resolves with a status.
FetchOutcomes ==
    [failed : {TRUE}, message : ErrMessages, status : {0}]
    \cup [failed : {FALSE}, message : {NULL}, status : FetchStatuses]

\* The pages a restaurant website can serve: nothing to find, a CAPTCHA in
\* front of a Mailchimp form, a Mailchimp form, a Squarespace marker without
\* a form id (a provider but no endpoint), a plain sign-up form in the footer.
SitePages ==
    {<<"text">>, <<"g_recaptcha", "mc_form">>, <<"mc_form">>, <<"sq_class">>,
     <<"text", "plain_form">>}

\* The pages behind the rows the enrichment table starts with, for the first
\* and for the second restaurant; <<>> is a failed enrichment.
StoredPages == {<<>>, <<"mc_form">>, <<"sq_class">>}

StoredPagesSecond == {<<"kl_onsite", "kl_list">>}

\* res.text() of a website response: a rejected read, or the HTML ("" is <<>>).
BodiesOf(pages) ==
    [failed : {TRUE}, message : ErrMessages, html : {<<>>}]
    \cup [failed : {FALSE}, message : {NULL}, html : pages \cup {<<>>}]

\* What the body read of a batch, and of an enrichment, can come back with.
BodyOutcomes == BodiesOf(SitePages)

EnrichBodyOutcomes == BodiesOf(SitePages \cup StoredPages \cup StoredPagesSecond)

\* res.ok
ResponseOk(status) == status >= 200 /\ status <= 299

(***************************************************************************)
(* providerSubmit.ts: the provider submitters.  Each takes the outcome of  *)
(* its single fetch and returns the request it sent and its SubmitResult.  *)
(* The source's em dash in the evidence is written " - " here.             *)
(***************************************************************************)

\* No request sent, no result returned.
NoRequest == [submitter |-> NULL, endpoint |-> NULL, fields |-> EmptyParams]

NoResult == [success |-> FALSE, evidence |-> NULL]

\* JavaScript null where a Record<string, string> is expected (JSON.parse of
\* the text "null"), written as a mapping no JSON object is equal to.
JsNullParams == [k \in {NULL} |-> NULL]

\* { ...params }: null spreads to nothing.
Spread(params) == IF params = JsNullParams THEN EmptyParams ELSE params

\* text[0] ? text[0].slice(0, 500) : ''
ResponseSnippet(text) == IF Truthy(text) THEN Slice(text, 500) ELSE ""

\* SubmitOutcome as it would be if a rejected POST reported err.message alone.
SubmitOutcomeBareMessage(label, failLabel, endpoint, out) ==
    IF out.failed
    THEN [success |-> FALSE, evidence |-> out.message]
    ELSE IF out.status >= 200 /\ out.status < 400
         THEN [success |-> TRUE,
               evidence |-> label \o " POST " \o ToString(out.status) \o " to "
                            \o endpoint \o " - " \o ResponseSnippet(out.text)]
         ELSE [success |-> FALSE,
               evidence |-> label \o " POST returned " \o ToString(out.status)
                            \o " - " \o ResponseSnippet(out.text)]

\* SubmitOutcome as it would be if success were res.ok (200..299).
SubmitOutcomeResOk(label, failLabel, endpoint, out) ==
    IF out.failed
    THEN [success |-> FALSE,
          evidence |-> failLabel \o " POST failed: " \o out.message]
    ELSE IF out.status >= 200 /\ out.status <= 299
         THEN [success |-> TRUE,
               evidence |-> label \o " POST " \o ToString(out.status) \o " to "
                            \o endpoint \o " - " \o ResponseSnippet(out.text)]
         ELSE [success |-> FALSE,
               evidence |-> label \o " POST returned " \o ToString(out.status)
                            \o " - " \o ResponseSnippet(out.text)]

\* The part all submitters share: classify the outcome of the POST.
SubmitOutcome(label, failLabel, endpoint, out) ==
    IF out.failed
    THEN [success |-> FALSE,
          evidence |-> failLabel \o " POST failed: " \o out.message]
    ELSE IF out.status >= 200 /\ out.status < 400
         THEN [success |-> TRUE,
               evidence |-> label \o " POST " \o ToString(out.status) \o " to "
                            \o endpoint \o " - " \o ResponseSnippet(out.text)]
         ELSE [success |-> FALSE,
               evidence |-> label \o " POST returned " \o ToString(out.status)
                            \o " - " \o ResponseSnippet(out.text)]

submitMailchimp(endpoint, params, email, out) ==
    [request |-> [submitter |-> "submitMailchimp", endpoint |-> endpoint,
                  fields |-> Merge([k \in {"EMAIL"} |-> email], Spread(params))],
     result  |-> SubmitOutcome("Mailchimp", "Mailchimp", endpoint, out),
     raised  |-> FALSE]

\* params['list_id'] is read before the fetch: on null it is a TypeError,
\* the promise of the submitter rejects and no request is sent.
submitKlaviyo(endpoint, params, email, out) ==
    LET p0 == [k \in {"email"} |-> email]
        p1 == IF "list_id" \in DOMAIN params /\ Truthy(params["list_id"])
              THEN Put(p0, "g", params["list_id"]) ELSE p0
        p2 == IF "company_id" \in DOMAIN params /\ Truthy(params["company_id"])
              THEN Put(p1, "$company_id", params["company_id"]) ELSE p1
    IN  IF params = JsNullParams
        THEN [request |-> NoRequest, result |-> NoResult, raised |-> TRUE]
        ELSE [request |-> [submitter |-> "submitKlaviyo", endpoint |-> endpoint,
                           fields |-> p2],
              result  |-> SubmitOutcome("Klaviyo", "Klaviyo", endpoint, out),
              raised  |-> FALSE]

submitGenericProvider(endpoint, emailFieldName, email, out) ==
    [request |-> [submitter |-> "submitGenericProvider", endpoint |-> endpoint,
                  fields |-> [k \in {emailFieldName} |-> email]],
     result  |-> SubmitOutcome("Provider", "Generic provider", endpoint, out),
     raised  |-> FALSE]

\* submitSquarespace is imported by subscribe.ts but its source is not part
\* of the repository snapshot; it follows the submitter contract of the
\* specification: one form-encoded POST with a single email field.
submitSquarespace(endpoint, params, email, out) ==
    [request |-> [submitter |-> "submitSquarespace", endpoint |-> endpoint,
                  fields |-> [k \in {"email"} |-> email]],
     result  |-> SubmitOutcome("Squarespace", "Squarespace", endpoint, out),
     raised  |-> FALSE]

\* Property names every object literal inherits from Object.prototype, and
\* the text of the inherited value when it is used as a property key.
InheritedProperties == {"constructor", "toString", "__proto__"}

InheritedAsKey(name) ==
    CASE name = "constructor" -> "function Object() { [native code] }"
      [] name = "toString" -> "function toString() { [native code] }"
      [] OTHER -> "[object Object]"

\* PROVIDER_EMAIL_FIELDS[provider] || 'email': the lookup on the object
\* literal finds the four own entries and, for an inherited name, the
\* inherited value, which is truthy.
ProviderEmailField(provider) ==
    IF provider = "mailerlite" THEN "fields[email]"
    ELSE IF provider \in InheritedProperties THEN InheritedAsKey(provider)
    ELSE "email"

tier1Submit(provider, endpoint, params, email, out) ==
    CASE provider = "mailchimp"   -> submitMailchimp(endpoint, params, email, out)
      [] provider = "klaviyo"     -> submitKlaviyo(endpoint, params, email, out)
      [] provider = "squarespace" -> submitSquarespace(endpoint, params, email, out)
      [] OTHER -> submitGenericProvider(endpoint, ProviderEmailField(provider),
                                        email, out)

\* CAPTCHA_SIGNALS as it would be if it knew the Turnstile marker only.
CaptchaSignalsTurnstileOnly(html) == Test(html, {"cf_turnstile"})

\* CAPTCHA_SIGNALS.test(html)
CaptchaSignals(html) == Test(html, {"g_recaptcha", "cf_turnstile"})

(***************************************************************************)
(* JSON text of a parameter mapping.                                       *)
(***************************************************************************)

\* The keys the matchers write, in the order they insert them.
ParamKeys ==
    <<"u", "id", "MMERGE1", "server", "company_id", "list_id", "account_id",
      "group_id", "publication_id", "formId", "collectionId", "subdomain">>

RECURSIVE JsonMembers(_, _, _)
JsonMembers(params, n, first) ==
    IF n > Len(ParamKeys) THEN ""
    ELSE IF ParamKeys[n] \in DOMAIN params
         THEN (IF first THEN "" ELSE ",")
              \o "\"" \o ParamKeys[n] \o "\":\"" \o params[ParamKeys[n]] \o "\""
              \o JsonMembers(params, n + 1, FALSE)
         ELSE JsonMembers(params, n + 1, first)

\* JSON.stringify(params)
JsonStringify(params) == "{" \o JsonMembers(params, 1, TRUE) \o "}"

\* Object.keys(detection.extractedParams).length > 0 ? JSON.stringify(...) : null
SerializeParams(params) ==
    IF DOMAIN params # {} THEN JsonStringify(params) ELSE NULL

(***************************************************************************)
(* db.ts: the restaurant_enrichment table and the subscription_attempt log. *)
(* A table is the sequence of its rows.                                    *)
(***************************************************************************)

RowIndex(table, restaurantId) ==
    IF \E i \in 1..Len(table) : table[i].restaurant_id = restaurantId
    THEN CHOOSE i \in 1..Len(table) :
             /\ table[i].restaurant_id = restaurantId
             /\ \A j \in 1..(i - 1) : table[j].restaurant_id # restaurantId
    ELSE 0

\* The row has no value for restaurant_id: getEnrichment returned null.
NoEnrichment == [restaurant_id |-> NULL]

\* SELECT * FROM restaurant_enrichment WHERE restaurant_id = ?  (first row)
getEnrichment(table, restaurantId) ==
    IF RowIndex(table, restaurantId) = 0 THEN NoEnrichment
    ELSE table[RowIndex(table, restaurantId)]

\* upsertEnrichment as it would be as a plain UPDATE: no row, nothing written.
upsertEnrichmentUpdateOnly(table, record, now) ==
    LET i == RowIndex(table, record.restaurant_id)
    IN  IF i = 0 THEN table
        ELSE [table EXCEPT ![i] =
                 [restaurant_id |-> record.restaurant_id,
                  website_url |-> record.website_url,
                  newsletter_url |-> record.newsletter_url,
                  newsletter_form_html |-> record.newsletter_form_html,
                  newsletter_provider |-> record.newsletter_provider,
                  newsletter_direct_endpoint |-> record.newsletter_direct_endpoint,
                  newsletter_extracted_params |-> table[i].newsletter_extracted_params,
                  enriched_at |-> record.enriched_at,
                  updated_at |-> now]]

\* upsertEnrichment as it would be as a plain INSERT without the conflict
\* clause (and without the primary key that makes it fail).
upsertEnrichmentInsertOnly(table, record, now) ==
    Append(table,
           [restaurant_id |-> record.restaurant_id,
            website_url |-> record.website_url,
            newsletter_url |-> record.newsletter_url,
            newsletter_form_html |-> record.newsletter_form_html,
            newsletter_provider |-> record.newsletter_provider,
            newsletter_direct_endpoint |-> record.newsletter_direct_endpoint,
            newsletter_extracted_params |-> NULL,
            enriched_at |-> record.enriched_at,
            updated_at |-> now])

\* INSERT ... ON CONFLICT(restaurant_id) DO UPDATE.  The statement names no
\* newsletter_extracted_params column: an inserted row has it NULL and an
\* updated row keeps what it had.
upsertEnrichment(table, record, now) ==
    LET i == RowIndex(table, record.restaurant_id)
        inserted ==
            [restaurant_id |-> record.restaurant_id,
             website_url |-> record.website_url,
             newsletter_url |-> record.newsletter_url,
             newsletter_form_html |-> record.newsletter_form_html,
             newsletter_provider |-> record.newsletter_provider,
             newsletter_direct_endpoint |-> record.newsletter_direct_endpoint,
             newsletter_extracted_params |-> NULL,
             enriched_at |-> record.enriched_at,
             updated_at |-> now]
    IN  IF i = 0 THEN Append(table, inserted)
        ELSE [table EXCEPT ![i] =
                 [inserted EXCEPT !.newsletter_extracted_params =
                                      table[i].newsletter_extracted_params]]

\* logSubscriptionAttempt as it would be if only successes were recorded.
logSubscriptionAttemptSuccessOnly(log, attempt) ==
    IF attempt.success THEN Append(log, attempt) ELSE log

\* INSERT INTO subscription_attempt: one more row at the end of the log.
logSubscriptionAttempt(log, attempt) == Append(log, attempt)

(***************************************************************************)
(* subscribe.ts and enrich.ts: the orchestrators, one step per await.      *)
(***************************************************************************)

\* Bounds of the model.
MaxBatch == 2
MaxEnrichCalls == 2

RestaurantIds == {"r1", "r2"}

Email == "diner@example.org"

WebsiteOf(restaurantId) == "https://" \o restaurantId \o ".example"

SubscribeItem(restaurantId) ==
    [restaurant_id |-> restaurantId, email |-> Email,
     website_url |-> WebsiteOf(restaurantId)]

\* The item lists handleSubscribeBatch is called with.
RECURSIVE ItemLists(_)
ItemLists(n) ==
    IF n = 0 THEN {<<>>}
    ELSE ItemLists(n - 1)
         \cup {Append(its, SubscribeItem(r)) :
                  its \in {l \in ItemLists(n - 1) : Len(l) = n - 1},
                  r \in RestaurantIds}

VARIABLES
    enrichment,  \* the restaurant_enrichment table
    attempts,    \* the subscription_attempt log
    bpc,         \* handleSubscribeBatch: where the call stands
    items,       \* its argument
    idx,         \* the position of `item` in items
    results,     \* its local results array
    enr,         \* its local `enrichment`, the row getEnrichment returned
    plan,        \* the submission about to be posted
    pending,     \* the outcome of the item: the row to log and result to push
    returned,    \* what the call resolved with, once it has
    trace,       \* history: the awaits the call has passed, in order
    epc,         \* enrichRestaurant: where the call stands
    erid,        \* its restaurantId argument
    erec,        \* the record it is about to upsert
    eobs,        \* history: what its fetch and body read came back with
    ecalls,      \* number of enrichRestaurant calls so far (the clock)
    elast,       \* history: per restaurant, the last completed call
    epause,      \* history: the pause its current call has completed, in ms
    restaurants, \* the restaurants table
    hpc,         \* the fetch handler of the worker: where the request stands
    hbody,       \* the JSON body of the request, as parsed
    htargets,    \* its local `items` (/api/subscribe) or `targets` (/api/enrich)
    hi,          \* the position of its loop in targets
    hresults,    \* its local `results`
    hresp,       \* the response it returned, once it has
    fin,         \* a function under study: its arguments
    fout         \* a function under study: what it returned, once it has

vars ==
    <<enrichment, attempts, bpc, items, idx, results, enr, plan, pending,
      returned, trace, epc, erid, erec, eobs, ecalls, elast, epause,
      restaurants, hpc, hbody, htargets, hi, hresults, hresp, fin, fout>>

batchVars == <<bpc, items, idx, results, enr, plan, pending, returned, trace>>
enrichVars == <<epc, erid, erec, eobs, ecalls, elast, epause>>
apiVars == <<restaurants, hpc, hbody, htargets, hi, hresults, hresp>>
pureVars == <<fin, fout>>

NoPlan == [provider |-> NULL, endpoint |-> NULL, params |-> EmptyParams,
           generic |-> FALSE]

NoPending == [tier |-> NULL, provider |-> NULL, endpoint |-> NULL,
              success |-> FALSE, evidence |-> NULL]

NoCall == [observed |-> <<>>, returned |-> FALSE, fields |-> <<>>, rows |-> 0]

\* No request body parsed, no response returned yet.
NoBody == [parsed |-> FALSE]

NoResponse == [status |-> 0]

\* No function applied yet.
NoInput == [f |-> NULL]

NoOutput == [f |-> NULL]

\* A history entry: which await of which item, with the pause it waited (sleep),
\* the HTML it read (text), or the request it sent and what came of it (post).
Event(ev, ms, html, request, result) ==
    [ev |-> ev, item |-> idx, ms |-> ms, html |-> html, request |-> request,
     result |-> result, status |-> 0]

Passed(ev) == Event(ev, 0, <<>>, NoRequest, NoResult)

----
\* handleSubscribeBatch

\* The Tier 1 test as it would be if it looked at the provider alone.
Tier1ReadyProviderOnly(e) ==
    /\ e # NoEnrichment
    /\ Truthy(e.newsletter_provider)

\* enrichment?.newsletter_direct_endpoint && enrichment.newsletter_provider
Tier1Ready(e) ==
    /\ e # NoEnrichment
    /\ Truthy(e.newsletter_direct_endpoint)
    /\ Truthy(e.newsletter_provider)

\* The tier 1 read of the persisted parameters: JSON.parse in a try/catch.
\* The text parses when it is the JSON text of a parameter mapping, or the
\* text "null", whose value is null; any other text throws and leaves {}.
ParamUniverse ==
    {MatcherDetect(matchers[m], h).params :
        m \in 1..Len(matchers), h \in SitePages \cup StoredPages \cup StoredPagesSecond}

ParsePersistedParams(text) ==
    IF ~Truthy(text) THEN EmptyParams
    ELSE IF text = "null" THEN JsNullParams
    ELSE IF \E p \in ParamUniverse : JsonStringify(p) = text
         THEN CHOOSE p \in ParamUniverse : JsonStringify(p) = text
         ELSE EmptyParams

\* The result of tier2FormSubmit when the fetch failed or was not ok.
Tier2FetchFailed(websiteUrl, out) ==
    [tier |-> "tier2_form", provider |-> NULL, endpoint |-> websiteUrl,
     success |-> FALSE,
     evidence |-> "Tier 2 fetch failed: "
                  \o OrElse(IF out.failed THEN out.message ELSE NULL,
                            "HTTP " \o (IF out.failed THEN "undefined"
                                        ELSE ToString(out.status)))]

\* Tier2BodyFailed as it would be if an unreadable body were handed to
\* Tier 3.
Tier2BodyFailedEscalating(websiteUrl, body) ==
    [tier |-> "tier3_needs_manual", provider |-> NULL, endpoint |-> websiteUrl,
     success |-> FALSE,
     evidence |-> "CAPTCHA or bot protection detected on website"]

\* The result of tier2FormSubmit when the body could not be read or is empty.
Tier2BodyFailed(websiteUrl, body) ==
    [tier |-> "tier2_form", provider |-> NULL, endpoint |-> websiteUrl,
     success |-> FALSE,
     evidence |-> "Tier 2 body read failed: "
                  \o (IF body.failed THEN body.message ELSE "undefined")]

\* Tier2Decide as it would be if a detected provider were enough for the
\* provider dispatch, with or without a direct endpoint.
Tier2DecideProviderOnly(html) ==
    LET detection  == detectNewsletterProvider(html)
        candidates == extractNewsletterCandidates(html)
    IN  IF CaptchaSignals(html)
        THEN [kind |-> "captcha", plan |-> NoPlan, calls |-> <<>>]
        ELSE IF Truthy(detection.provider)
        THEN [kind |-> "submit",
              plan |-> [provider |-> detection.provider,
                        endpoint |-> detection.directEndpoint,
                        params |-> detection.extractedParams, generic |-> FALSE],
              calls |-> <<Passed("detect")>>]
        ELSE IF Len(candidates) = 0
        THEN [kind |-> "no_form", plan |-> NoPlan,
              calls |-> <<Passed("detect"), Passed("extract")>>]
        ELSE [kind |-> "submit",
              plan |-> [provider |-> NULL, endpoint |-> candidates[1].url,
                        params |-> EmptyParams, generic |-> TRUE],
              calls |-> <<Passed("detect"), Passed("extract")>>]

\* Tier2Decide as it would be if the extractor ran on every page without a
\* CAPTCHA marker and its best candidate were preferred to the detection.
Tier2DecideCandidateFirst(html) ==
    LET detection  == detectNewsletterProvider(html)
        candidates == extractNewsletterCandidates(html)
    IN  IF CaptchaSignals(html)
        THEN [kind |-> "captcha", plan |-> NoPlan, calls |-> <<>>]
        ELSE IF Len(candidates) > 0
        THEN [kind |-> "submit",
              plan |-> [provider |-> NULL, endpoint |-> candidates[1].url,
                        params |-> EmptyParams, generic |-> TRUE],
              calls |-> <<Passed("detect"), Passed("extract")>>]
        ELSE IF Truthy(detection.directEndpoint) /\ Truthy(detection.provider)
        THEN [kind |-> "submit",
              plan |-> [provider |-> detection.provider,
                        endpoint |-> detection.directEndpoint,
                        params |-> detection.extractedParams, generic |-> FALSE],
              calls |-> <<Passed("detect"), Passed("extract")>>]
        ELSE [kind |-> "no_form", plan |-> NoPlan,
              calls |-> <<Passed("detect"), Passed("extract")>>]

\* What tier2FormSubmit does with the HTML it read, up to its POST, and the
\* calls it makes on that HTML, in order: detectNewsletterProvider unless a
\* CAPTCHA marker matched, then extractNewsletterCandidates unless the
\* detection had provider and endpoint.
Tier2Decide(html) ==
    LET detection  == detectNewsletterProvider(html)
        candidates == extractNewsletterCandidates(html)
    IN  IF CaptchaSignals(html)
        THEN [kind |-> "captcha", plan |-> NoPlan, calls |-> <<>>]
        ELSE IF Truthy(detection.directEndpoint) /\ Truthy(detection.provider)
        THEN [kind |-> "submit",
              plan |-> [provider |-> detection.provider,
                        endpoint |-> detection.directEndpoint,
                        params |-> detection.extractedParams, generic |-> FALSE],
              calls |-> <<Passed("detect")>>]
        ELSE IF Len(candidates) = 0
        THEN [kind |-> "no_form", plan |-> NoPlan,
              calls |-> <<Passed("detect"), Passed("extract")>>]
        ELSE [kind |-> "submit",
              plan |-> [provider |-> NULL, endpoint |-> candidates[1].url,
                        params |-> EmptyParams, generic |-> TRUE],
              calls |-> <<Passed("detect"), Passed("extract")>>]

\* The rows handleSubscribeBatch logs for 'captcha' and 'no_form'.
Tier3Row(websiteUrl) ==
    [tier |-> "tier3_needs_manual", provider |-> NULL, endpoint |-> websiteUrl,
     success |-> FALSE,
     evidence |-> "CAPTCHA or bot protection detected on website"]

NoFormRow(websiteUrl) ==
    [tier |-> "tier2_form", provider |-> NULL, endpoint |-> websiteUrl,
     success |-> FALSE, evidence |-> "No newsletter form found on website"]

\* The submission of the plan: tier1Submit, or the generic POST to the best
\* candidate with field name 'email'.
SubmitPlan(p, email, out) ==
    IF p.generic THEN submitGenericProvider(p.endpoint, "email", email, out)
    ELSE tier1Submit(p.provider, p.endpoint, p.params, email, out)

\* The outcome of a Tier 1 item: the submit result, tagged tier1_direct.
Tier1Row(e, submitResult) ==
    [tier |-> "tier1_direct", provider |-> e.newsletter_provider,
     endpoint |-> e.newsletter_direct_endpoint,
     success |-> submitResult.success, evidence |-> submitResult.evidence]

\* Tier 1 as it would be if a failed submission fell through to Tier 2.
AfterTier1FallThrough(submitResult) ==
    IF submitResult.success THEN "log" ELSE "t2_sleep"

\* Where a Tier 1 item goes once tier1Submit has resolved: to the log write
\* and `continue`, whatever the result.
AfterTier1(submitResult) == "log"

\* Tier 2 as it would be if a failed submission were handed to Tier 3.
Tier2RowEscalating(p, submitResult, websiteUrl) ==
    IF submitResult.success
    THEN [tier |-> "tier2_form", provider |-> p.provider, endpoint |-> p.endpoint,
          success |-> TRUE, evidence |-> submitResult.evidence]
    ELSE Tier3Row(websiteUrl)

\* The outcome of a Tier 2 item whose submission was posted.
Tier2Row(p, submitResult, websiteUrl) ==
    [tier |-> "tier2_form", provider |-> p.provider, endpoint |-> p.endpoint,
     success |-> submitResult.success, evidence |-> submitResult.evidence]

\* The rejection as it would be handled if the log write were wrapped in a
\* catch that carries on.
AfterStoreRejectSwallowed(pc) == IF pc = "log" THEN "push" ELSE "thrown"

\* The rejection as it would be handled if a failed lookup were taken for a
\* missing record and a failed log write were ignored.
AfterStoreRejectCarryOn(pc) == IF pc = "lookup" THEN "t2_sleep" ELSE "push"

\* Where the call goes when an awaited store call rejects: nothing catches
\* it, handleSubscribeBatch rejects.
AfterStoreReject(pc) == "thrown"

\* The row passed to logSubscriptionAttempt.
AttemptRow(item, row) ==
    [restaurant_id |-> item.restaurant_id, email |-> item.email,
     tier |-> row.tier, provider |-> row.provider, endpoint |-> row.endpoint,
     success |-> row.success, evidence |-> row.evidence]

\* The result as it would be if it reported a submission as made whenever
\* the item was not handed to manual handling.
ResultOfNotManual(item, row) ==
    [restaurant_id |-> item.restaurant_id, tier |-> row.tier,
     success |-> row.tier # "tier3_needs_manual", evidence |-> row.evidence]

\* The object pushed to results.
ResultOf(item, row) ==
    [restaurant_id |-> item.restaurant_id, tier |-> row.tier,
     success |-> row.success, evidence |-> row.evidence]

StartBatch(its) ==
    /\ bpc = "idle"
    /\ items' = its
    /\ idx' = 1
    /\ results' = <<>>
    /\ trace' = <<>>
    /\ IF its = <<>>
       THEN bpc' = "returned" /\ returned' = <<>>
       ELSE bpc' = "lookup" /\ UNCHANGED returned
    /\ UNCHANGED <<enrichment, attempts, enr, plan, pending>>
    /\ UNCHANGED <<enrichVars, apiVars, pureVars>>

\* const enrichment = await getEnrichment(db, item.restaurant_id)
Lookup ==
    /\ bpc = "lookup"
    /\ enr' = getEnrichment(enrichment, items[idx].restaurant_id)
    /\ bpc' = IF Tier1Ready(enr') THEN "t1_sleep" ELSE "t2_sleep"
    /\ trace' = Append(trace, Passed("lookup"))
    /\ UNCHANGED <<enrichment, attempts, items, idx, results, plan, pending, returned>>
    /\ UNCHANGED <<enrichVars, apiVars, pureVars>>

\* A rejected store call is not caught: the call rejects.
StoreRejects ==
    /\ bpc \in {"lookup", "log"}
    /\ bpc' = AfterStoreReject(bpc)
    /\ UNCHANGED <<enrichment, attempts, items, idx, results, enr, plan, pending,
                   returned, trace>>
    /\ UNCHANGED <<enrichVars, apiVars, pureVars>>

\* await sleep(200), then the read of the persisted parameters
Tier1Sleep ==
    /\ bpc = "t1_sleep"
    /\ plan' = [provider |-> enr.newsletter_provider,
                endpoint |-> enr.newsletter_direct_endpoint,
                params |-> ParsePersistedParams(enr.newsletter_extracted_params),
                generic |-> FALSE]
    /\ bpc' = "t1_post"
    /\ trace' = Append(trace, Event("sleep", 200, <<>>, NoRequest, NoResult))
    /\ UNCHANGED <<enrichment, attempts, items, idx, results, enr, pending, returned>>
    /\ UNCHANGED <<enrichVars, apiVars, pureVars>>

\* const submitResult = await tier1Submit(...); a submitter that raises is
\* not caught and the call rejects.
Tier1Post(out) ==
    /\ bpc = "t1_post"
    /\ LET s == SubmitPlan(plan, items[idx].email, out)
       IN  IF s.raised
           THEN /\ bpc' = "raised"
                /\ UNCHANGED <<pending, trace>>
           ELSE /\ pending' = Tier1Row(enr, s.result)
                /\ bpc' = AfterTier1(s.result)
                /\ trace' = Append(trace, Event("post", 0, <<>>, s.request, s.result))
    /\ UNCHANGED <<enrichment, attempts, items, idx, results, enr, plan, returned>>
    /\ UNCHANGED <<enrichVars, apiVars, pureVars>>

\* await sleep(800)
Tier2Sleep ==
    /\ bpc = "t2_sleep"
    /\ bpc' = "t2_fetch"
    /\ trace' = Append(trace, Event("sleep", 800, <<>>, NoRequest, NoResult))
    /\ UNCHANGED <<enrichment, attempts, items, idx, results, enr, plan, pending,
                   returned>>
    /\ UNCHANGED <<enrichVars, apiVars, pureVars>>

\* tier2FormSubmit: the website fetch; fetch('') has no URL to go to and
\* rejects.
Tier2Fetch(out) ==
    /\ bpc = "t2_fetch"
    /\ items[idx].website_url = "" => out.failed
    /\ trace' = Append(trace, [Passed("fetch") EXCEPT
                                  !.status = IF out.failed THEN 0 ELSE out.status])
    /\ IF out.failed \/ ~ResponseOk(out.status)
       THEN /\ pending' = Tier2FetchFailed(items[idx].website_url, out)
            /\ bpc' = "log"
       ELSE /\ bpc' = "t2_text"
            /\ UNCHANGED pending
    /\ UNCHANGED <<enrichment, attempts, items, idx, results, enr, plan, returned>>
    /\ UNCHANGED <<enrichVars, apiVars, pureVars>>

\* tier2FormSubmit: res.text(), the CAPTCHA check, detection and extraction
Tier2ReadBody(body) ==
    /\ bpc = "t2_text"
    /\ trace' = Append(trace, Event("text", 0, body.html, NoRequest, NoResult))
                 \o (IF body.failed \/ body.html = <<>> THEN <<>>
                     ELSE Tier2Decide(body.html).calls)
    /\ IF body.failed \/ body.html = <<>>
       THEN /\ pending' = Tier2BodyFailed(items[idx].website_url, body)
            /\ bpc' = "log"
            /\ UNCHANGED plan
       ELSE LET d == Tier2Decide(body.html)
            IN  CASE d.kind = "captcha" ->
                       /\ pending' = Tier3Row(items[idx].website_url)
                       /\ bpc' = "log"
                       /\ UNCHANGED plan
                  [] d.kind = "no_form" ->
                       /\ pending' = NoFormRow(items[idx].website_url)
                       /\ bpc' = "log"
                       /\ UNCHANGED plan
                  [] d.kind = "submit" ->
                       /\ plan' = d.plan
                       /\ bpc' = "t2_post"
                       /\ UNCHANGED pending
    /\ UNCHANGED <<enrichment, attempts, items, idx, results, enr, returned>>
    /\ UNCHANGED <<enrichVars, apiVars, pureVars>>

\* tier2FormSubmit: the submission POST
Tier2Post(out) ==
    /\ bpc = "t2_post"
    /\ LET s == SubmitPlan(plan, items[idx].email, out)
       IN  IF s.raised
           THEN /\ bpc' = "raised"
                /\ UNCHANGED <<pending, trace>>
           ELSE /\ pending' = Tier2Row(plan, s.result, items[idx].website_url)
                /\ trace' = Append(trace, Event("post", 0, <<>>, s.request, s.result))
                /\ bpc' = "log"
    /\ UNCHANGED <<enrichment, attempts, items, idx, results, enr, plan, returned>>
    /\ UNCHANGED <<enrichVars, apiVars, pureVars>>

\* The log write as it would be if the provider and endpoint of the outcome
\* were written back to the restaurant's enrichment row.
LogAttemptWriteBack ==
    /\ bpc = "log"
    /\ attempts' = logSubscriptionAttempt(attempts, AttemptRow(items[idx], pending))
    /\ enrichment' = upsertEnrichment(enrichment,
                          [restaurant_id |-> items[idx].restaurant_id,
                           website_url |-> items[idx].website_url,
                           newsletter_url |-> pending.endpoint,
                           newsletter_form_html |-> NULL,
                           newsletter_provider |-> pending.provider,
                           newsletter_direct_endpoint |-> pending.endpoint,
                           newsletter_extracted_params |-> NULL,
                           enriched_at |-> 0], 0)
    /\ trace' = Append(trace, Passed("log"))
    /\ bpc' = "push"
    /\ UNCHANGED <<items, idx, results, enr, plan, pending, returned>>
    /\ UNCHANGED <<enrichVars, apiVars, pureVars>>

\* await logSubscriptionAttempt(db, {...})
LogAttempt ==
    /\ bpc = "log"
    /\ attempts' = logSubscriptionAttempt(attempts, AttemptRow(items[idx], pending))
    /\ trace' = Append(trace, Passed("log"))
    /\ bpc' = "push"
    /\ UNCHANGED <<enrichment, items, idx, results, enr, plan, pending, returned>>
    /\ UNCHANGED <<enrichVars, apiVars, pureVars>>

\* results.push({...}); continue  -- and return results after the last item
PushResult ==
    /\ bpc = "push"
    /\ results' = Append(results, ResultOf(items[idx], pending))
    /\ trace' = Append(trace, Passed("push"))
    /\ IF idx = Len(items)
       THEN /\ bpc' = "returned"
            /\ returned' = results'
            /\ UNCHANGED idx
       ELSE /\ bpc' = "lookup"
            /\ idx' = idx + 1
            /\ UNCHANGED returned
    /\ UNCHANGED <<enrichment, attempts, items, enr, plan, pending>>
    /\ UNCHANGED <<enrichVars, apiVars, pureVars>>

----
\* enrichRestaurant

\* The record upserted when the fetch or the body read failed.
FailedEnrichmentRecord(restaurantId, websiteUrl, now) ==
    [restaurant_id |-> restaurantId, website_url |-> websiteUrl,
     newsletter_url |-> NULL, newsletter_form_html |-> NULL,
     newsletter_provider |-> NULL, newsletter_direct_endpoint |-> NULL,
     newsletter_extracted_params |-> NULL, enriched_at |-> now]

\* The record as it would be if the best URL found were stored as the direct
\* endpoint.
DetectedEnrichmentRecordUrlAsEndpoint(restaurantId, websiteUrl, html, now) ==
    LET detection    == detectNewsletterProvider(html)
        candidates   == extractNewsletterCandidates(html)
        hasCandidate == Len(candidates) > 0
        topUrl       == IF hasCandidate THEN candidates[1].url ELSE NULL
        topFormHtml  == IF hasCandidate THEN candidates[1].formHtml ELSE NULL
    IN  [restaurant_id |-> restaurantId, website_url |-> websiteUrl,
         newsletter_url |-> OrElse(detection.directEndpoint, OrElse(topUrl, NULL)),
         newsletter_form_html |-> OrElse(Slice(topFormHtml, 5000), NULL),
         newsletter_provider |-> detection.provider,
         newsletter_direct_endpoint |->
             OrElse(detection.directEndpoint, OrElse(topUrl, NULL)),
         newsletter_extracted_params |-> SerializeParams(detection.extractedParams),
         enriched_at |-> now]

\* The record upserted after detection and extraction.
DetectedEnrichmentRecord(restaurantId, websiteUrl, html, now) ==
    LET detection    == detectNewsletterProvider(html)
        candidates   == extractNewsletterCandidates(html)
        hasCandidate == Len(candidates) > 0
        topUrl       == IF hasCandidate THEN candidates[1].url ELSE NULL
        topFormHtml  == IF hasCandidate THEN candidates[1].formHtml ELSE NULL
    IN  [restaurant_id |-> restaurantId, website_url |-> websiteUrl,
         newsletter_url |-> OrElse(detection.directEndpoint, OrElse(topUrl, NULL)),
         newsletter_form_html |-> OrElse(Slice(topFormHtml, 5000), NULL),
         newsletter_provider |-> detection.provider,
         newsletter_direct_endpoint |-> detection.directEndpoint,
         newsletter_extracted_params |-> SerializeParams(detection.extractedParams),
         enriched_at |-> now]

\* The classification fields of a restaurant's row, <<>> when it has none.
ClassificationFields(table, restaurantId) ==
    LET row == getEnrichment(table, restaurantId)
    IN  IF row = NoEnrichment THEN <<>>
        ELSE <<row.newsletter_url, row.newsletter_form_html,
               row.newsletter_provider, row.newsletter_direct_endpoint,
               row.newsletter_extracted_params>>

RowCount(table, restaurantId) ==
    Cardinality({i \in 1..Len(table) : table[i].restaurant_id = restaurantId})

\* The history entry of a completed call.
CallRecord(table, restaurantId, observed, didReturn, before) ==
    [observed |-> observed, returned |-> didReturn,
     fields |-> ClassificationFields(table, restaurantId),
     rows |-> RowCount(table, restaurantId),
     prevObserved |-> before.observed, prevReturned |-> before.returned,
     prevFields |-> before.fields]

EnrichStart(restaurantId) ==
    /\ epc = "idle"
    /\ ecalls < MaxEnrichCalls
    /\ ecalls' = ecalls + 1
    /\ erid' = restaurantId
    /\ eobs' = <<>>
    /\ epc' = "sleep"
    /\ epause' = 0
    /\ UNCHANGED <<enrichment, attempts, erec, elast>>
    /\ UNCHANGED <<batchVars, apiVars, pureVars>>

\* await sleep(800)
EnrichSleep ==
    /\ epc = "sleep"
    /\ epc' = "fetch"
    /\ epause' = 800
    /\ UNCHANGED <<enrichment, attempts, erid, erec, eobs, ecalls, elast>>
    /\ UNCHANGED <<batchVars, apiVars, pureVars>>

\* the website fetch
EnrichFetch(out) ==
    /\ epc = "fetch"
    /\ eobs' = <<out>>
    /\ IF out.failed \/ ~ResponseOk(out.status)
       THEN /\ erec' = FailedEnrichmentRecord(erid, WebsiteOf(erid), ecalls)
            /\ epc' = "upsert"
       ELSE /\ epc' = "text"
            /\ UNCHANGED erec
    /\ UNCHANGED <<enrichment, attempts, erid, ecalls, elast, epause>>
    /\ UNCHANGED <<batchVars, apiVars, pureVars>>

\* res.text(), detection and extraction
EnrichReadBody(body) ==
    /\ epc = "text"
    /\ eobs' = Append(eobs, body)
    /\ erec' = IF body.failed \/ body.html = <<>>
               THEN FailedEnrichmentRecord(erid, WebsiteOf(erid), ecalls)
               ELSE DetectedEnrichmentRecord(erid, WebsiteOf(erid), body.html, ecalls)
    /\ epc' = "upsert"
    /\ UNCHANGED <<enrichment, attempts, erid, ecalls, elast, epause>>
    /\ UNCHANGED <<batchVars, apiVars, pureVars>>

\* await upsertEnrichment(db, {...}); return
EnrichUpsert ==
    /\ epc = "upsert"
    /\ enrichment' = upsertEnrichment(enrichment, erec, ecalls)
    /\ elast' = [elast EXCEPT ![erid] =
                    CallRecord(enrichment', erid, eobs, TRUE, elast[erid])]
    /\ epc' = "idle"
    /\ UNCHANGED <<attempts, erid, erec, eobs, ecalls, epause>>
    /\ UNCHANGED <<batchVars, apiVars, pureVars>>

\* A rejected upsert is not caught: the call rejects.
EnrichUpsertRejects ==
    /\ epc = "upsert"
    /\ elast' = [elast EXCEPT ![erid] =
                    CallRecord(enrichment, erid, eobs, FALSE, elast[erid])]
    /\ epc' = "idle"
    /\ UNCHANGED <<enrichment, attempts, erid, erec, eobs, ecalls, epause>>
    /\ UNCHANGED <<batchVars, apiVars, pureVars>>

----
\* The table enrichRestaurant leaves after enriching a restaurant whose site
\* served the page (<<>>: the fetch failed).
EnrichedTable(table, restaurantId, page, now) ==
    upsertEnrichment(
        table,
        IF page = <<>>
        THEN FailedEnrichmentRecord(restaurantId, WebsiteOf(restaurantId), now)
        ELSE DetectedEnrichmentRecord(restaurantId, WebsiteOf(restaurantId), page, now),
        now)

\* The tables a batch can find: r1 enriched or not, then r2 enriched or not.
StoredTables ==
    LET first == {<<>>} \cup {EnrichedTable(<<>>, "r1", p, 1) : p \in StoredPages}
    IN  first \cup {EnrichedTable(t, "r2", p, 2) : t \in first, p \in StoredPagesSecond}

Quiet ==
    /\ attempts = <<>>
    /\ bpc = "idle"
    /\ items = <<>>
    /\ idx = 0
    /\ results = <<>>
    /\ enr = NoEnrichment
    /\ plan = NoPlan
    /\ pending = NoPending
    /\ returned = <<>>
    /\ trace = <<>>
    /\ epc = "idle"
    /\ erid = NULL
    /\ erec = NoEnrichment
    /\ eobs = <<>>
    /\ ecalls = 0
    /\ elast = [r \in RestaurantIds |-> NoCall]
    /\ epause = 0
    /\ hpc = "idle"
    /\ hbody = NoBody
    /\ htargets = <<>>
    /\ hi = 0
    /\ hresults = <<>>
    /\ hresp = NoResponse

\* Nothing has been called yet.
Idle == Quiet /\ fin = NoInput /\ fout = NoOutput

\* One call of handleSubscribeBatch on a table earlier enrichments left.
Init == enrichment \in StoredTables /\ restaurants = <<>> /\ Idle

Next ==
    \/ \E its \in ItemLists(MaxBatch) : StartBatch(its)
    \/ Lookup
    \/ StoreRejects
    \/ Tier1Sleep
    \/ \E out \in PostOutcomes : Tier1Post(out)
    \/ Tier2Sleep
    \/ \E out \in FetchOutcomes : Tier2Fetch(out)
    \/ \E body \in BodyOutcomes : Tier2ReadBody(body)
    \/ \E out \in PostOutcomes : Tier2Post(out)
    \/ LogAttempt
    \/ PushResult

Spec == Init /\ [][Next]_vars

\* A sequence of enrichRestaurant calls on an empty table.
InitEnrich == enrichment = <<>> /\ restaurants = <<>> /\ Idle

NextEnrich ==
    \/ \E r \in RestaurantIds : EnrichStart(r)
    \/ EnrichSleep
    \/ \E out \in FetchOutcomes : EnrichFetch(out)
    \/ \E body \in EnrichBodyOutcomes : EnrichReadBody(body)
    \/ EnrichUpsert
    \/ EnrichUpsertRejects

SpecEnrich == InitEnrich /\ [][NextEnrich]_vars

----
\* detectNewsletterProvider on its own: the pages it is given and one call.

\* The elements in one fixed document order.
ElementOrder ==
    <<"text", "mc_form", "mc_script", "kl_form", "kl_static", "kl_inline",
      "kl_onsite", "kl_list", "cc_form", "cc_embed", "cc_link", "ml_form",
      "ml_script", "ml_account", "ml_group", "bh_form", "bh_embed", "bh_link",
      "sq_class", "sq_form", "sq_word", "sq_coll", "sq_canonical", "sq_og",
      "ss_link", "ss_embed", "plain_form">>

\* Bound: the number of elements of a page given to the classifier.
MaxSignals == 3

\* The page made of the elements of S, in document order.
PageOf(S) ==
    LET Keep(e) == e \in S IN SelectSeq(ElementOrder, Keep)

\* The sets of at most n elements.
RECURSIVE ElementSets(_)
ElementSets(n) ==
    IF n = 0 THEN {{}}
    ELSE ElementSets(n - 1)
         \cup {S \cup {ElementOrder[k]} :
                  S \in ElementSets(n - 1), k \in 1..Len(ElementOrder)}

DetectPages == {PageOf(S) : S \in ElementSets(MaxSignals)}

\* The state everything but the function under study is in.
programVars == <<enrichment, attempts, batchVars, enrichVars, apiVars>>

InitDetect ==
    /\ enrichment = <<>>
    /\ restaurants = <<>>
    /\ Quiet
    /\ fin \in [f : {"detectNewsletterProvider"}, html : DetectPages]
    /\ fout = NoOutput

\* detectNewsletterProvider(html)
CallDetect ==
    /\ fin.f = "detectNewsletterProvider"
    /\ fout = NoOutput
    /\ fout' = [f |-> fin.f, result |-> detectNewsletterProvider(fin.html)]
    /\ UNCHANGED fin
    /\ UNCHANGED programVars

NextDetect == CallDetect

SpecDetect == InitDetect /\ [][NextDetect]_vars

----
\* The matchers on a page and on the same page with one more signal of a
\* platform.

\* The platform whose matcher an element is a signal of, NULL for none.
PlatformOf(e) ==
    CASE e \in {"mc_form", "mc_script"} -> "mailchimp"
      [] e \in {"kl_form", "kl_static", "kl_inline", "kl_onsite", "kl_list"} -> "klaviyo"
      [] e \in {"cc_form", "cc_embed", "cc_link"} -> "constant_contact"
      [] e \in {"ml_form", "ml_script", "ml_account", "ml_group"} -> "mailerlite"
      [] e \in {"bh_form", "bh_embed", "bh_link"} -> "beehiiv"
      [] e \in {"sq_class", "sq_form", "sq_word", "sq_coll", "sq_canonical", "sq_og"}
            -> "squarespace"
      [] e \in {"ss_link", "ss_embed"} -> "substack"
      [] OTHER -> NULL

SignalElements == {e \in Elements : PlatformOf(e) # NULL}

\* The weights a matcher adds for one signal.
SingleSignalWeights(name) ==
    CASE name = "mailchimp"        -> {50, 30}
      [] name = "klaviyo"          -> {50, 30, 20, 10}
      [] name = "constant_contact" -> {50, 30, 10}
      [] name = "mailerlite"       -> {50, 30, 20}
      [] name = "beehiiv"          -> {50, 40, 20}
      [] name = "squarespace"      -> {40, 10}
      [] name = "substack"         -> {40, 30}

\* The pages made of signals only.
SignalPages == {h \in DetectPages : \A k \in 1..Len(h) : h[k] \in SignalElements}

\* What every matcher and the classifier give one page.
Readings(html) ==
    [confidence |-> [n \in 1..Len(matchers) |-> MatcherDetect(matchers[n], html).confidence],
     provider   |-> detectNewsletterProvider(html).provider]

InitMoreSignals ==
    /\ enrichment = <<>>
    /\ restaurants = <<>>
    /\ Quiet
    /\ fin \in [f : {"matchers"}, html : SignalPages, added : SignalElements]
    /\ fout = NoOutput

\* The matchers on the page as given.
CallMatchers ==
    /\ fin.f = "matchers"
    /\ fout = NoOutput
    /\ fout' = [f |-> "before", before |-> Readings(fin.html)]
    /\ UNCHANGED fin
    /\ UNCHANGED programVars

\* The matchers on the page with the signal added at its end.
CallMatchersWithSignal ==
    /\ fout # NoOutput
    /\ fout.f = "before"
    /\ fout' = [f |-> "after", before |-> fout.before,
                after |-> Readings(Append(fin.html, fin.added))]
    /\ UNCHANGED fin
    /\ UNCHANGED programVars

NextMoreSignals == CallMatchers \/ CallMatchersWithSignal

SpecMoreSignals == InitMoreSignals /\ [][NextMoreSignals]_vars

----
\* One matcher of Constant Contact, MailerLite, Beehiiv or Substack on a
\* page made of the signals of those four.

EndpointMatchers == {"constant_contact", "mailerlite", "beehiiv", "substack"}

EndpointSignals == {e \in Elements : PlatformOf(e) \in EndpointMatchers}

\* Bound: the number of signals of a page given to one matcher.
MaxEndpointSignals == 3

EndpointPages ==
    {PageOf(S) : S \in {T \in SUBSET EndpointSignals :
                           Cardinality(T) <= MaxEndpointSignals}}

InitMatcher ==
    /\ enrichment = <<>>
    /\ restaurants = <<>>
    /\ Quiet
    /\ fin \in [f : {"matcher.detect"}, name : EndpointMatchers, html : EndpointPages]
    /\ fout = NoOutput

\* matcher.detect(html)
CallMatcher ==
    /\ fin.f = "matcher.detect"
    /\ fout = NoOutput
    /\ fout' = [f |-> fin.f, result |-> MatcherDetect(fin.name, fin.html)]
    /\ UNCHANGED fin
    /\ UNCHANGED programVars

NextMatcher == CallMatcher

SpecMatcher == InitMatcher /\ [][NextMatcher]_vars

(***************************************************************************)
(* The provider submitters called on their own: one call of one submitter  *)
(* on a parameter mapping, against every way the POST can end.             *)
(***************************************************************************)

\* Status codes a response to the POST can carry, on both sides of the
\* 200..399 range the submitters accept.
SubmitStatuses == {200, 204, 302, 399, 400, 404, 500}

\* The POST rejects, or resolves with a status and a body that reads or not.
SubmitReplies ==
    [failed : {TRUE}, message : ErrMessages, status : {0}, text : {NULL}]
    \cup [failed : {FALSE}, message : {NULL}, status : SubmitStatuses,
          text : ResponseTexts]

\* params: Record<string, string> of the submitters' signatures.
SubmitParams ==
    {EmptyParams,
     [k \in {"u", "id"} |-> IF k = "u" THEN "AAA" ELSE "BBB"],
     [k \in {"list_id", "company_id"} |-> IF k = "list_id" THEN "L1" ELSE "KC1"],
     [k \in {"list_id"} |-> ""]}

SubmitEndpoint == "https://provider.example/subscribe"

SubmitCalls ==
    [f : {"submitMailchimp", "submitKlaviyo"}, endpoint : {SubmitEndpoint},
     params : SubmitParams, emailFieldName : {NULL},
     email : {"a@x.example"}, reply : SubmitReplies]
    \cup [f : {"submitGenericProvider"}, endpoint : {SubmitEndpoint},
          params : {EmptyParams}, emailFieldName : {"email", "fields[email]"},
          email : {"a@x.example"}, reply : SubmitReplies]

InitSubmit ==
    /\ enrichment = <<>>
    /\ restaurants = <<>>
    /\ Quiet
    /\ fin \in SubmitCalls
    /\ fout = NoOutput

\* What the caller of a submitter is left with.
Returned(f, s) ==
    [f |-> f, request |-> s.request, result |-> s.result, raised |-> s.raised]

CallSubmitMailchimp ==
    /\ fin.f = "submitMailchimp"
    /\ fout = NoOutput
    /\ fout' = Returned(fin.f,
                 submitMailchimp(fin.endpoint, fin.params, fin.email, fin.reply))
    /\ UNCHANGED fin
    /\ UNCHANGED programVars

CallSubmitKlaviyo ==
    /\ fin.f = "submitKlaviyo"
    /\ fout = NoOutput
    /\ fout' = Returned(fin.f,
                 submitKlaviyo(fin.endpoint, fin.params, fin.email, fin.reply))
    /\ UNCHANGED fin
    /\ UNCHANGED programVars

CallSubmitGenericProvider ==
    /\ fin.f = "submitGenericProvider"
    /\ fout = NoOutput
    /\ fout' = Returned(fin.f,
                 submitGenericProvider(fin.endpoint, fin.emailFieldName,
                                       fin.email, fin.reply))
    /\ UNCHANGED fin
    /\ UNCHANGED programVars

NextSubmit ==
    \/ CallSubmitMailchimp
    \/ CallSubmitKlaviyo
    \/ CallSubmitGenericProvider

SpecSubmit == InitSubmit /\ [][NextSubmit]_vars

(***************************************************************************)
(* tier1Submit called on its own: the dispatch on the provider name.       *)
(***************************************************************************)

\* The seven names the matchers give, a name no matcher gives, and names
\* that are properties of every object.
DispatchProviders ==
    {matchers[m] : m \in 1..Len(matchers)} \cup {"sendgrid"}
    \cup InheritedProperties

InitDispatch ==
    /\ enrichment = <<>>
    /\ restaurants = <<>>
    /\ Quiet
    /\ fin \in [f : {"tier1Submit"}, provider : DispatchProviders,
                endpoint : {SubmitEndpoint}, params : SubmitParams,
                email : {Email}, reply : PostOutcomes]
    /\ fout = NoOutput

CallTier1Submit ==
    /\ fin.f = "tier1Submit"
    /\ fout = NoOutput
    /\ fout' = Returned(fin.f,
                 tier1Submit(fin.provider, fin.endpoint, fin.params, fin.email,
                             fin.reply))
    /\ UNCHANGED fin
    /\ UNCHANGED programVars

NextDispatch == CallTier1Submit

SpecDispatch == InitDispatch /\ [][NextDispatch]_vars

(***************************************************************************)
(* extractNewsletterCandidates called on its own, on short documents in    *)
(* which an element can occur more than once and in any order.             *)
(***************************************************************************)

\* Longest document, in elements.
MaxPageLen == 3

\* Filler text and one or more elements for each surface of the scan.
ExtractElements ==
    {"text", "mc_form", "plain_form", "sq_form", "cc_link", "ss_link",
     "news_link", "bh_embed", "mc_script", "inline_mc"}

ExtractPages ==
    UNION {[1..n -> ExtractElements] : n \in 0..MaxPageLen}

InitExtract ==
    /\ enrichment = <<>>
    /\ restaurants = <<>>
    /\ Quiet
    /\ fin \in [f : {"extractNewsletterCandidates"}, html : ExtractPages]
    /\ fout = NoOutput

CallExtract ==
    /\ fin.f = "extractNewsletterCandidates"
    /\ fout = NoOutput
    /\ fout' = [f |-> fin.f, result |-> extractNewsletterCandidates(fin.html)]
    /\ UNCHANGED fin
    /\ UNCHANGED programVars

NextExtract == CallExtract

SpecExtract == InitExtract /\ [][NextExtract]_vars

(***************************************************************************)
(* handleSubscribeBatch on a table whose newsletter_extracted_params       *)
(* column was filled by another writer of the store: the column is TEXT    *)
(* and the batch reads whatever it holds.                                  *)
(***************************************************************************)

\* Texts the column can hold: nothing, text that is no JSON, the JSON text
\* null, and the JSON text of a parameter mapping.
PersistedTexts ==
    {NULL, "{not json", "null",
     JsonStringify(MatcherDetect("mailchimp", <<"mc_form">>).params),
     JsonStringify(MatcherDetect("klaviyo", <<"kl_onsite", "kl_list">>).params)}

\* The table with the column of every row set to the text.
WithPersistedParams(table, text) ==
    [k \in DOMAIN table |->
        [table[k] EXCEPT !.newsletter_extracted_params = text]]

\* r1 enriched as a Mailchimp or a Klaviyo site, r2 not enriched.
PersistedTables ==
    {WithPersistedParams(EnrichedTable(<<>>, "r1", page, 1), text) :
        page \in {<<"mc_form">>, <<"kl_onsite", "kl_list">>},
        text \in PersistedTexts}

InitPersisted == enrichment \in PersistedTables /\ restaurants = <<>> /\ Idle

SpecPersisted == InitPersisted /\ [][Next]_vars

(***************************************************************************)
(* handleSubscribeBatch on one item, against websites of every kind the    *)
(* Tier 2 decision tells apart.                                            *)
(***************************************************************************)

\* Pages with nothing to find; with a direct endpoint for each submitter of
\* the dispatch; with a provider but no endpoint, with and without a
\* candidate; with candidates only; behind a CAPTCHA.
Tier2Pages ==
    {<<"text">>,
     <<"mc_form">>, <<"kl_form", "kl_list">>, <<"ml_form">>, <<"ss_link">>,
     <<"sq_form", "sq_canonical">>,
     <<"sq_class">>, <<"sq_class", "text", "plain_form">>, <<"cc_link">>,
     <<"ml_script">>,
     <<"text", "plain_form">>, <<"news_link", "plain_form">>,
     <<"g_recaptcha", "mc_form">>, <<"cf_turnstile", "plain_form">>}

\* r1 not enriched, or enriched with a direct endpoint.
InitTier2 ==
    /\ enrichment \in {<<>>, EnrichedTable(<<>>, "r1", <<"mc_form">>, 1)}
    /\ restaurants = <<>>
    /\ Idle

NextTier2 ==
    \/ \E its \in ItemLists(1) : StartBatch(its)
    \/ Lookup
    \/ StoreRejects
    \/ Tier1Sleep
    \/ \E out \in PostOutcomes : Tier1Post(out)
    \/ Tier2Sleep
    \/ \E out \in FetchOutcomes : Tier2Fetch(out)
    \/ \E body \in BodiesOf(Tier2Pages) : Tier2ReadBody(body)
    \/ \E out \in PostOutcomes : Tier2Post(out)
    \/ LogAttempt
    \/ PushResult

SpecTier2 == InitTier2 /\ [][NextTier2]_vars

(***************************************************************************)
(* Enrichment followed by subscription: at most one enrichRestaurant call  *)
(* on the pages of Tier2Pages, then one batch of one item that finds       *)
(* whatever row the enrichment left.                                       *)
(***************************************************************************)

InitPipeline == InitTier2

NextPipeline ==
    \/ bpc = "idle" /\ ecalls = 0 /\ EnrichStart("r1")
    \/ EnrichSleep
    \/ \E out \in FetchOutcomes : EnrichFetch(out)
    \/ \E body \in BodiesOf(Tier2Pages) : EnrichReadBody(body)
    \/ EnrichUpsert
    \/ EnrichUpsertRejects
    \/ epc = "idle" /\ \E its \in ItemLists(1) : StartBatch(its)
    \/ Lookup
    \/ StoreRejects
    \/ Tier1Sleep
    \/ \E out \in PostOutcomes : Tier1Post(out)
    \/ Tier2Sleep
    \/ \E out \in FetchOutcomes : Tier2Fetch(out)
    \/ \E body \in BodiesOf(Tier2Pages) : Tier2ReadBody(body)
    \/ \E out \in PostOutcomes : Tier2Post(out)
    \/ LogAttempt
    \/ PushResult

SpecPipeline == InitPipeline /\ [][NextPipeline]_vars

(***************************************************************************)
(* The worker's POST /api/subscribe: one request against a restaurants     *)
(* table and the enrichment table earlier enrichments left.                *)
(***************************************************************************)

\* A row of the restaurants table; website_url is nullable.
RestaurantRow(id, websiteUrl) ==
    [id |-> id, name |-> id, website_url |-> websiteUrl]

\* The restaurants tables importRestaurants can have left.
RestaurantTables ==
    {<<>>,
     <<RestaurantRow("r1", WebsiteOf("r1"))>>,
     <<RestaurantRow("r1", WebsiteOf("r1")), RestaurantRow("r2", WebsiteOf("r2"))>>,
     <<RestaurantRow("r1", NULL), RestaurantRow("r2", WebsiteOf("r2"))>>}

\* restaurants INNER JOIN restaurant_enrichment
\* WHERE newsletter_url IS NOT NULL OR newsletter_direct_endpoint IS NOT NULL
getRestaurantsWithEnrichment(rs, table) ==
    LET Joined(r) ==
            \E k \in 1..Len(table) :
                /\ table[k].restaurant_id = r.id
                /\ \/ table[k].newsletter_url # NULL
                   \/ table[k].newsletter_direct_endpoint # NULL
    IN  SelectSeq(rs, Joined)

\* targets.filter((r) => idSet.has(r.id)) when restaurant_ids is not empty
FilterByIds(targets, ids) ==
    LET Wanted(r) == \E k \in 1..Len(ids) : ids[k] = r.id
    IN  IF ids = <<>> THEN targets ELSE SelectSeq(targets, Wanted)

\* targets.map((r) => ({restaurant_id, email, website_url: r.website_url || ''}))
ItemsOfTargets(targets, email) ==
    [k \in 1..Len(targets) |->
        [restaurant_id |-> targets[k].id, email |-> email,
         website_url |-> OrElse(targets[k].website_url, "")]]

\* A request body that is no JSON.
UnparsedBody ==
    [parsed |-> FALSE, items |-> <<>>, email |-> NULL, restaurant_ids |-> <<>>]

\* The bodies of a subscribe request; an absent field is <<>> or NULL.
SubscribeBodies ==
    {UnparsedBody}
    \cup [parsed : {TRUE}, items : {<<>>, <<SubscribeItem("r1")>>},
          email : {NULL, "", Email}, restaurant_ids : {<<>>, <<"r2">>}]

ErrorResponse(status, message) == [status |-> status, error |-> message]

\* The step after the item list is known, as it would be without the check
\* for an empty list.
SubscribeDecideUnchecked(its) == [pc |-> "s_run", resp |-> NoResponse]

\* if (items.length === 0) return json({error: ...}, 400)
SubscribeDecide(its) ==
    IF its = <<>>
    THEN [pc |-> "done",
          resp |-> ErrorResponse(400, "No subscribable restaurants found. Provide items[] or email + restaurant_ids.")]
    ELSE [pc |-> "s_run", resp |-> NoResponse]

\* request.json() and the choice of the source of the items
SubscribeReceive(body) ==
    /\ hpc = "idle"
    /\ bpc = "idle"
    /\ hbody' = body
    /\ IF ~body.parsed
       THEN /\ hresp' = ErrorResponse(400, "Invalid JSON body")
            /\ hpc' = "done"
            /\ UNCHANGED htargets
       ELSE IF body.items # <<>>
       THEN /\ htargets' = body.items
            /\ hpc' = SubscribeDecide(body.items).pc
            /\ hresp' = SubscribeDecide(body.items).resp
       ELSE IF Truthy(body.email)
       THEN /\ hpc' = "s_query"
            /\ UNCHANGED <<htargets, hresp>>
       ELSE /\ hpc' = SubscribeDecide(<<>>).pc
            /\ hresp' = SubscribeDecide(<<>>).resp
            /\ UNCHANGED htargets
    /\ UNCHANGED <<restaurants, hi, hresults>>
    /\ UNCHANGED <<enrichment, attempts, batchVars, enrichVars, pureVars>>

\* await getRestaurantsWithEnrichment(env.DB), the filter and the map
SubscribeQuery ==
    /\ hpc = "s_query"
    /\ htargets' = ItemsOfTargets(
                       FilterByIds(getRestaurantsWithEnrichment(restaurants, enrichment),
                                   hbody.restaurant_ids),
                       hbody.email)
    /\ hpc' = SubscribeDecide(htargets').pc
    /\ hresp' = SubscribeDecide(htargets').resp
    /\ UNCHANGED <<restaurants, hbody, hi, hresults>>
    /\ UNCHANGED <<enrichment, attempts, batchVars, enrichVars, pureVars>>

\* if (queryErr) return json({error: queryErr.message}, 500)
SubscribeQueryRejects(message) ==
    /\ hpc = "s_query"
    /\ hresp' = ErrorResponse(500, message)
    /\ hpc' = "done"
    /\ UNCHANGED <<restaurants, hbody, htargets, hi, hresults>>
    /\ UNCHANGED <<enrichment, attempts, batchVars, enrichVars, pureVars>>

\* safeAsync(() => handleSubscribeBatch(env.DB, items)): the call
SubscribeRunBatch ==
    /\ hpc = "s_run"
    /\ StartBatch(htargets)

\* ... and its end: the results, or the error of a rejected batch
SubscribeRespond ==
    /\ hpc = "s_run"
    /\ bpc \in {"returned", "thrown", "raised"}
    /\ hresp' = IF bpc = "returned"
                THEN [status |-> 200, subscribed |-> Len(returned),
                      results |-> returned]
                ELSE ErrorResponse(500, "rejected")
    /\ hpc' = "done"
    /\ UNCHANGED <<restaurants, hbody, htargets, hi, hresults>>
    /\ UNCHANGED <<enrichment, attempts, batchVars, enrichVars, pureVars>>

InitSubscribeApi ==
    /\ enrichment \in StoredTables
    /\ restaurants \in RestaurantTables
    /\ Idle

NextSubscribeApi ==
    \/ \E body \in SubscribeBodies : SubscribeReceive(body)
    \/ SubscribeQuery
    \/ \E message \in ErrMessages : SubscribeQueryRejects(message)
    \/ SubscribeRunBatch
    \/ Lookup
    \/ StoreRejects
    \/ Tier1Sleep
    \/ \E out \in PostOutcomes : Tier1Post(out)
    \/ Tier2Sleep
    \/ \E out \in FetchOutcomes : Tier2Fetch(out)
    \/ \E body \in BodyOutcomes : Tier2ReadBody(body)
    \/ \E out \in PostOutcomes : Tier2Post(out)
    \/ LogAttempt
    \/ PushResult
    \/ SubscribeRespond

SpecSubscribeApi == InitSubscribeApi /\ [][NextSubscribeApi]_vars

(***************************************************************************)
(* The worker's POST /api/enrich: one request against a restaurants table  *)
(* and the enrichment table earlier enrichments left.                      *)
(***************************************************************************)

\* getRestaurantsToEnrich as it would be without "e.restaurant_id IS NULL".
getRestaurantsToEnrichAnyRow(rs, table) ==
    LET HasUrl(r) == r.website_url # NULL
    IN  SelectSeq(rs, HasUrl)

\* restaurants LEFT JOIN restaurant_enrichment
\* WHERE r.website_url IS NOT NULL AND e.restaurant_id IS NULL
getRestaurantsToEnrich(rs, table) ==
    LET Unenriched(r) ==
            /\ r.website_url # NULL
            /\ ~\E k \in 1..Len(table) : table[k].restaurant_id = r.id
    IN  SelectSeq(rs, Unenriched)

EnrichItem(restaurantId) ==
    [restaurant_id |-> restaurantId, website_url |-> WebsiteOf(restaurantId)]

\* The bodies of an enrich request; a body that is no JSON is read as
\* undefined, which has no items and no restaurant_ids.
EnrichBodies ==
    [parsed : BOOLEAN, items : {<<>>}, restaurant_ids : {<<>>}]
    \cup [parsed : {TRUE}, items : {<<>>}, restaurant_ids : {<<"r2">>}]
    \cup [parsed : {TRUE}, items : {<<EnrichItem("r1")>>},
          restaurant_ids : {<<>>}]

\* The restaurants of the query as the loop uses them.
TargetsOf(rs) ==
    [k \in 1..Len(rs) |->
        [restaurant_id |-> rs[k].id, website_url |-> rs[k].website_url]]

\* json({ enriched: results.length, results })
EnrichedResponse(rs) == [status |-> 200, enriched |-> Len(rs), results |-> rs]

\* request.json() and the explicit items, if any
EnrichApiReceive(body) ==
    /\ hpc = "idle"
    /\ epc = "idle"
    /\ hbody' = body
    /\ IF body.items # <<>>
       THEN /\ htargets' = body.items
            /\ hi' = 1
            /\ hpc' = "e_loop"
       ELSE /\ hpc' = "e_query"
            /\ UNCHANGED <<htargets, hi>>
    /\ UNCHANGED <<restaurants, hresults, hresp>>
    /\ UNCHANGED <<enrichment, attempts, batchVars, enrichVars, pureVars>>

\* await getRestaurantsToEnrich(env.DB), the filter, the empty case
EnrichApiQuery ==
    /\ hpc = "e_query"
    /\ htargets' = TargetsOf(FilterByIds(getRestaurantsToEnrich(restaurants, enrichment),
                                         hbody.restaurant_ids))
    /\ IF htargets' = <<>>
       THEN /\ hresp' = EnrichedResponse(<<>>)
            /\ hpc' = "done"
            /\ UNCHANGED hi
       ELSE /\ hi' = 1
            /\ hpc' = "e_loop"
            /\ UNCHANGED hresp
    /\ UNCHANGED <<restaurants, hbody, hresults>>
    /\ UNCHANGED <<enrichment, attempts, batchVars, enrichVars, pureVars>>

\* if (queryErr) return json({error: queryErr.message}, 500)
EnrichApiQueryRejects(message) ==
    /\ hpc = "e_query"
    /\ hresp' = ErrorResponse(500, message)
    /\ hpc' = "done"
    /\ UNCHANGED <<restaurants, hbody, htargets, hi, hresults>>
    /\ UNCHANGED <<enrichment, attempts, batchVars, enrichVars, pureVars>>

\* safeAsync(() => enrichRestaurant(env.DB, restaurant.id, ...)): the call
EnrichApiCall ==
    /\ hpc = "e_loop"
    /\ ecalls = hi - 1
    /\ EnrichStart(htargets[hi].restaurant_id)

\* ... and its end: results.push, then the next target or the response
EnrichApiCollect ==
    /\ hpc = "e_loop"
    /\ epc = "idle"
    /\ ecalls = hi
    /\ hresults' = Append(hresults,
                      [restaurant_id |-> htargets[hi].restaurant_id,
                       returned |-> elast[htargets[hi].restaurant_id].returned])
    /\ IF hi = Len(htargets)
       THEN /\ hresp' = EnrichedResponse(hresults')
            /\ hpc' = "done"
            /\ UNCHANGED hi
       ELSE /\ hi' = hi + 1
            /\ UNCHANGED <<hresp, hpc>>
    /\ UNCHANGED <<restaurants, hbody, htargets>>
    /\ UNCHANGED <<enrichment, attempts, batchVars, enrichVars, pureVars>>

InitEnrichApi ==
    /\ enrichment \in StoredTables
    /\ restaurants \in RestaurantTables
    /\ Idle

NextEnrichApi ==
    \/ \E body \in EnrichBodies : EnrichApiReceive(body)
    \/ EnrichApiQuery
    \/ \E message \in ErrMessages : EnrichApiQueryRejects(message)
    \/ EnrichApiCall
    \/ EnrichSleep
    \/ \E out \in FetchOutcomes : EnrichFetch(out)
    \/ \E body \in EnrichBodyOutcomes : EnrichReadBody(body)
    \/ EnrichUpsert
    \/ EnrichUpsertRejects
    \/ EnrichApiCollect

SpecEnrichApi == InitEnrichApi /\ [][NextEnrichApi]_vars

(***************************************************************************)
(* Properties of handleSubscribeBatch, checked under Spec.  The log starts *)
(* empty and only this call writes to it, so the row of the i-th item is   *)
(* the i-th row of the log.                                                *)
(***************************************************************************)

Tiers == {"tier1_direct", "tier2_form", "tier3_needs_manual"}

\* The positions in the history of the awaits of one kind that item i passed.
ItemEvents(i, ev) ==
    {k \in 1..Len(trace) : trace[k].item = i /\ trace[k].ev = ev}

\* Item i has been carried to its outcome and past its log write.
Processed(i) == i < idx \/ (i = idx /\ bpc \in {"push", "returned"})

\* The rows of the log that were written for item i.
RowsOf(i) ==
    {k \in 1..Len(attempts) : k = i /\ attempts[k].restaurant_id = items[i].restaurant_id}

\* C1: every item handleSubscribeBatch has carried to its outcome has exactly
\* one row in the subscription_attempt log, whose tier is one of tier1_direct,
\* tier2_form, tier3_needs_manual; no item ever has more than one row, the
\* log holds nothing else, and when the call returns every item of the batch
\* has its row.  (The only items without a row are the one in progress and,
\* when a store call was rejected, the items from that one on.)
C1_ExactlyOneRowPerItem ==
    /\ Len(attempts) <= Len(items)
    /\ \A i \in 1..Len(items) :
          Cardinality(RowsOf(i)) = IF Processed(i) THEN 1 ELSE 0
    /\ Len(attempts) = Cardinality({i \in 1..Len(items) : Processed(i)})
    /\ \A k \in 1..Len(attempts) : attempts[k].tier \in Tiers
    /\ bpc = "returned" => \A i \in 1..Len(items) : Processed(i)

\* A returned batch of two items, one logged as tier1_direct and one as
\* tier3_needs_manual.
C1_Witness ==
    /\ bpc = "returned"
    /\ Len(items) = 2
    /\ Len(attempts) = 2
    /\ attempts[1].tier = "tier1_direct"
    /\ attempts[2].tier = "tier3_needs_manual"

\* The HTML carries one of the bot-protection markers of the vocabulary.
HasCaptchaMarkup(html) ==
    \E k \in 1..Len(html) : html[k] \in {"g_recaptcha", "cf_turnstile"}

\* The items whose Tier 2 read returned HTML with a bot-protection marker.
CaptchaItems ==
    {trace[k].item : k \in {j \in 1..Len(trace) :
                               trace[j].ev = "text" /\ HasCaptchaMarkup(trace[j].html)}}

\* C2: an item whose fetched HTML carries a CAPTCHA signal sends no submission
\* POST (neither a provider submitter nor the generic form POST is invoked),
\* is never about to send one, and its outcome and its row are Tier 3.
C2_CaptchaShortCircuit ==
    \A i \in CaptchaItems :
        /\ ItemEvents(i, "post") = {}
        /\ i = idx => bpc # "t2_post"
        /\ (i = idx /\ bpc \in {"log", "push"}) => pending.tier = "tier3_needs_manual"
        /\ i <= Len(attempts) => attempts[i].tier = "tier3_needs_manual"

\* A returned one-item batch whose site served a reCAPTCHA in front of a
\* Mailchimp form.
C2_Witness ==
    /\ bpc = "returned"
    /\ Len(items) = 1
    /\ 1 \in CaptchaItems
    /\ \E k \in ItemEvents(1, "text") : Test(trace[k].html, {"mc_form"})
    /\ Len(attempts) = 1

\* The stored row of a restaurant has both a direct endpoint and a provider.
HasEndpointAndProvider(restaurantId) ==
    \E k \in 1..Len(enrichment) :
        /\ enrichment[k].restaurant_id = restaurantId
        /\ enrichment[k].newsletter_direct_endpoint \notin {NULL, ""}
        /\ enrichment[k].newsletter_provider \notin {NULL, ""}

\* C3: an item enters Tier 1 (the 200 ms pause, the direct submission, a
\* tier1_direct row) exactly when the stored record of its restaurant has
\* both a direct endpoint and a provider; otherwise it enters Tier 2 (the
\* 800 ms pause) and is never logged as tier1_direct.
C3_Tier1IffEndpointAndProvider ==
    /\ \A k \in 1..Len(trace) :
          trace[k].ev = "sleep" =>
              /\ trace[k].ms = 200
                    <=> HasEndpointAndProvider(items[trace[k].item].restaurant_id)
              /\ trace[k].ms = 800
                    <=> ~HasEndpointAndProvider(items[trace[k].item].restaurant_id)
    /\ \A i \in 1..Len(attempts) :
          attempts[i].tier = "tier1_direct"
              <=> HasEndpointAndProvider(items[i].restaurant_id)
    /\ bpc \in {"t1_sleep", "t1_post"}
          => HasEndpointAndProvider(items[idx].restaurant_id)
    /\ bpc \in {"t2_sleep", "t2_fetch", "t2_text", "t2_post"}
          => ~HasEndpointAndProvider(items[idx].restaurant_id)

\* A returned batch: the first restaurant's record has a provider but no
\* endpoint and went through Tier 2, the second has both and went through
\* Tier 1.
C3_Witness ==
    /\ bpc = "returned"
    /\ Len(items) = 2
    /\ getEnrichment(enrichment, items[1].restaurant_id) # NoEnrichment
    /\ getEnrichment(enrichment, items[1].restaurant_id).newsletter_provider # NULL
    /\ getEnrichment(enrichment, items[1].restaurant_id).newsletter_direct_endpoint = NULL
    /\ attempts[1].tier # "tier1_direct"
    /\ attempts[2].tier = "tier1_direct"

\* The items that entered Tier 1.
Tier1Items ==
    {trace[k].item : k \in {j \in 1..Len(trace) :
                               trace[j].ev = "sleep" /\ trace[j].ms = 200}}

\* C4: an item that entered Tier 1 never fetches the website or reads its
\* body, never pauses for Tier 2, sends at most one submission, and the
\* result of that submission, failed or not, is what is logged and what is
\* returned for the item, under tier1_direct.
C4_Tier1Terminal ==
    \A i \in Tier1Items :
        /\ ItemEvents(i, "fetch") = {}
        /\ ItemEvents(i, "text") = {}
        /\ Cardinality(ItemEvents(i, "sleep")) = 1
        /\ Cardinality(ItemEvents(i, "post")) <= 1
        /\ i = idx => bpc \notin {"t2_sleep", "t2_fetch", "t2_text", "t2_post"}
        /\ i <= Len(attempts) =>
              /\ attempts[i].tier = "tier1_direct"
              /\ \A k \in ItemEvents(i, "post") :
                    /\ attempts[i].success = trace[k].result.success
                    /\ attempts[i].evidence = trace[k].result.evidence
        /\ i <= Len(results) =>
              /\ results[i].tier = "tier1_direct"
              /\ \A k \in ItemEvents(i, "post") :
                    /\ results[i].success = trace[k].result.success
                    /\ results[i].evidence = trace[k].result.evidence

\* A returned batch with a Tier 1 item whose submission got a 400, and one
\* whose submission was rejected by the network.
C4_Witness ==
    /\ bpc = "returned"
    /\ Len(returned) = 2
    /\ Tier1Items = {1, 2}
    /\ ~returned[1].success /\ ~returned[2].success
    /\ \E k \in ItemEvents(1, "post") :
          trace[k].result.evidence = "Klaviyo POST returned 400 - thanks"
    /\ \E k \in ItemEvents(2, "post") :
          trace[k].result.evidence = "Klaviyo POST failed: timeout"

\* C5: every Tier 3 outcome (the pending outcome, the logged row, the
\* returned result) has success = false and the bot-protection evidence, and
\* its item has sent no submission request.
C5_Tier3NeverSubmits ==
    /\ \A i \in 1..Len(attempts) :
          attempts[i].tier = "tier3_needs_manual" =>
              /\ attempts[i].success = FALSE
              /\ attempts[i].evidence = "CAPTCHA or bot protection detected on website"
              /\ ItemEvents(i, "post") = {}
    /\ \A i \in 1..Len(results) :
          results[i].tier = "tier3_needs_manual" =>
              /\ results[i].success = FALSE
              /\ results[i].evidence = "CAPTCHA or bot protection detected on website"
              /\ ItemEvents(i, "post") = {}
    /\ (bpc \in {"log", "push"} /\ pending.tier = "tier3_needs_manual") =>
          /\ pending.success = FALSE
          /\ pending.evidence = "CAPTCHA or bot protection detected on website"
          /\ ItemEvents(idx, "post") = {}

\* A returned batch whose second item ended in Tier 3 after the first item
\* did send a submission.
C5_Witness ==
    /\ bpc = "returned"
    /\ Len(returned) = 2
    /\ returned[2].tier = "tier3_needs_manual"
    /\ ItemEvents(1, "post") # {}
    /\ ItemEvents(2, "text") # {}

\* C6: the log write of an item comes before the push of its result: every
\* push in the history follows a log write of the same item, every result
\* (pushed or returned) has the row of its item in the log and repeats its
\* restaurant, tier, success and evidence.
C6_LoggedBeforeReturned ==
    /\ \A k \in 1..Len(trace) :
          trace[k].ev = "push" =>
              \E j \in 1..(k - 1) :
                  trace[j].ev = "log" /\ trace[j].item = trace[k].item
    /\ Len(results) <= Len(attempts)
    /\ Len(returned) <= Len(attempts)
    /\ \A i \in 1..Len(results) :
          /\ results[i].restaurant_id = attempts[i].restaurant_id
          /\ results[i].tier = attempts[i].tier
          /\ results[i].success = attempts[i].success
          /\ results[i].evidence = attempts[i].evidence
    /\ \A i \in 1..Len(returned) : returned[i] = results[i]

\* The second item's row is in the log and its result is not pushed yet,
\* after the first item went through Tier 1 and the second through Tier 2.
C6_Witness ==
    /\ bpc = "push"
    /\ idx = 2
    /\ Len(attempts) = 2
    /\ Len(results) = 1
    /\ attempts[1].tier = "tier1_direct"
    /\ attempts[2].tier = "tier2_form"

\* C7: every row of the subscription_attempt log has non-empty evidence.
C7_EvidenceNeverEmpty ==
    \A i \in 1..Len(attempts) :
        /\ attempts[i].evidence # NULL
        /\ attempts[i].evidence # ""
        /\ Len(attempts[i].evidence) > 0

\* Two rows whose evidence had nothing to quote: a Tier 1 POST rejected with
\* an empty error message, and a Tier 2 body read rejected with one.
C7_Witness ==
    /\ Len(attempts) = 2
    /\ attempts[1].evidence = "Klaviyo POST failed: "
    /\ attempts[2].evidence = "Tier 2 body read failed: "

(***************************************************************************)
(* Properties of enrichRestaurant, checked under SpecEnrich.               *)
(***************************************************************************)

\* C8: every row of restaurant_enrichment that has a direct endpoint has a
\* provider.
C8_EndpointImpliesProvider ==
    \A k \in 1..Len(enrichment) :
        enrichment[k].newsletter_direct_endpoint # NULL
            => enrichment[k].newsletter_provider # NULL

\* The table holds a row with an endpoint and a provider, and a row with a
\* URL found by the extractor but neither endpoint nor provider.
C8_Witness ==
    /\ Len(enrichment) = 2
    /\ enrichment[1].newsletter_direct_endpoint # NULL
    /\ enrichment[1].newsletter_provider = "mailchimp"
    /\ enrichment[2].newsletter_url = "/signup"
    /\ enrichment[2].newsletter_direct_endpoint = NULL
    /\ enrichment[2].newsletter_provider = NULL

\* C9: once a call of enrichRestaurant has returned, whatever its fetch and
\* its body read came back with, the table holds a row for its restaurant.
C9_EnrichAlwaysLeavesRow ==
    \A r \in RestaurantIds :
        elast[r].returned =>
            /\ elast[r].rows >= 1
            /\ RowCount(enrichment, r) >= 1
            /\ getEnrichment(enrichment, r) # NoEnrichment

\* Two calls have returned: one whose fetch was rejected, one whose response
\* was a 404; each restaurant has its row, with no classification.
C9_Witness ==
    /\ epc = "idle"
    /\ elast["r1"].returned /\ elast["r2"].returned
    /\ Len(elast["r1"].observed) = 1 /\ elast["r1"].observed[1].failed
    /\ Len(elast["r2"].observed) = 1 /\ elast["r2"].observed[1].status = 404
    /\ RowCount(enrichment, "r1") = 1 /\ RowCount(enrichment, "r2") = 1
    /\ getEnrichment(enrichment, "r1").newsletter_provider = NULL

\* C10: when two calls in a row for the same restaurant have returned and
\* the site answered both the same way, the classification fields after the
\* second are those after the first, and the restaurant has exactly one row.
C10_EnrichIdempotent ==
    \A r \in RestaurantIds :
        (/\ elast[r].returned
         /\ elast[r].prevReturned
         /\ elast[r].observed = elast[r].prevObserved)
        => /\ elast[r].fields = elast[r].prevFields
           /\ elast[r].fields # <<>>
           /\ elast[r].rows = 1
           /\ RowCount(enrichment, r) = 1

\* The same restaurant was enriched twice from the same Mailchimp page.
C10_Witness ==
    /\ epc = "idle"
    /\ elast["r1"].returned
    /\ elast["r1"].prevReturned
    /\ elast["r1"].observed = elast["r1"].prevObserved
    /\ Len(elast["r1"].observed) = 2
    /\ elast["r1"].observed[2].html = <<"mc_form">>
    /\ elast["r1"].fields[3] = "mailchimp"

\* The HTML a returned call classified: the body it read, <<>> when the fetch
\* or the read failed.
ClassifiedHtml(observed) ==
    IF Len(observed) = 2 /\ ~observed[2].failed THEN observed[2].html ELSE <<>>

\* C11: after a call of enrichRestaurant has returned, the row of its
\* restaurant holds in newsletter_extracted_params the serialized mapping of
\* the parameters the classifier extracted from the HTML it read (null when
\* there are none), so that the Tier 1 read of the row yields that mapping.
C11_ExtractedParamsPersisted ==
    \A r \in RestaurantIds :
        (elast[r].returned /\ ClassifiedHtml(elast[r].observed) # <<>>) =>
            LET extracted ==
                    detectNewsletterProvider(ClassifiedHtml(elast[r].observed)).extractedParams
                row == getEnrichment(enrichment, r)
            IN  /\ row.newsletter_extracted_params = SerializeParams(extracted)
                /\ ParsePersistedParams(row.newsletter_extracted_params) = extracted

\* The classification fields the latest enrichment computed from what it
\* observed: all null when the fetch or the body read failed.
LatestFields(restaurantId, observed) ==
    LET record == IF ClassifiedHtml(observed) = <<>>
                  THEN FailedEnrichmentRecord(restaurantId, WebsiteOf(restaurantId), 0)
                  ELSE DetectedEnrichmentRecord(restaurantId, WebsiteOf(restaurantId),
                                                ClassifiedHtml(observed), 0)
    IN  <<record.newsletter_url, record.newsletter_form_html,
          record.newsletter_provider, record.newsletter_direct_endpoint,
          record.newsletter_extracted_params>>

\* C12: when a restaurant that already had a row is enriched again, its row
\* holds the five classification fields of the latest enrichment (all null
\* when its fetch failed) and the restaurant still has exactly one row.
C12_ReEnrichmentOverwrites ==
    \A r \in RestaurantIds :
        (elast[r].returned /\ elast[r].prevReturned) =>
            /\ elast[r].fields = LatestFields(r, elast[r].observed)
            /\ elast[r].rows = 1

(***************************************************************************)
(* Properties of detectNewsletterProvider, checked under SpecDetect.       *)
(***************************************************************************)

\* The confidence matcher n of the registry gives the page.
ConfidenceOf(n, html) == MatcherDetect(matchers[n], html).confidence

\* C13: the result of detectNewsletterProvider is the result of a matcher
\* whose confidence is above zero, is the highest of all matchers and is
\* strictly above that of every matcher before it in the registry; its
\* endpoint, confidence and params are that matcher's.  When every matcher
\* gives zero the result is provider null, directEndpoint null, confidence
\* 0 and no params.
C13_DetectSelectsHighest ==
    fout # NoOutput =>
        LET html == fin.html
            r    == fout.result
        IN  IF \A n \in 1..Len(matchers) : ConfidenceOf(n, html) = 0
            THEN /\ r.provider = NULL
                 /\ r.directEndpoint = NULL
                 /\ r.confidence = 0
                 /\ r.extractedParams = EmptyParams
            ELSE \E n \in 1..Len(matchers) :
                    /\ r.provider = matchers[n]
                    /\ ConfidenceOf(n, html) > 0
                    /\ \A j \in 1..Len(matchers) :
                          ConfidenceOf(j, html) <= ConfidenceOf(n, html)
                    /\ \A j \in 1..(n - 1) :
                          ConfidenceOf(j, html) < ConfidenceOf(n, html)
                    /\ r.confidence = ConfidenceOf(n, html)
                    /\ r.directEndpoint = MatcherDetect(matchers[n], html).endpoint
                    /\ r.extractedParams = MatcherDetect(matchers[n], html).params

\* A page with a Mailchimp form, a Klaviyo form and a beehiiv link: the two
\* forms tie at 50 and the earlier matcher, mailchimp, is the result.
C13_Witness ==
    /\ fout # NoOutput
    /\ fin.html = <<"mc_form", "kl_form", "bh_link">>
    /\ fout.result.provider = "mailchimp"
    /\ fout.result.confidence = 50

(***************************************************************************)
(* Properties of the matchers, checked under SpecMoreSignals.              *)
(***************************************************************************)

\* The position in the registry of the platform the added signal belongs to.
AddedPlatform ==
    CHOOSE n \in 1..Len(matchers) : matchers[n] = PlatformOf(fin.added)

\* The highest weight any other matcher gives one signal.
MaxOtherSingleWeight(n) ==
    CHOOSE w \in UNION {SingleSignalWeights(matchers[j]) :
                           j \in 1..Len(matchers) \ {n}} :
        \A j \in 1..Len(matchers) \ {n} :
            \A v \in SingleSignalWeights(matchers[j]) : v <= w

\* C14: one more signal of platform P on a page never lowers the confidence
\* of P's matcher; and when P's confidence was above every single-signal
\* weight of the other matchers, a matcher that did not outscore P before
\* does not outscore it after, and P stays the classifier's result if it was.
C14_ConfidenceMonotone ==
    (fout # NoOutput /\ fout.f = "after") =>
        LET P == AddedPlatform
        IN  /\ fout.after.confidence[P] >= fout.before.confidence[P]
            /\ fout.before.confidence[P] > MaxOtherSingleWeight(P) =>
                  /\ \A Q \in 1..Len(matchers) \ {P} :
                        fout.before.confidence[Q] <= fout.before.confidence[P]
                            => fout.after.confidence[Q] <= fout.after.confidence[P]
                  /\ fout.before.provider = matchers[P]
                        => fout.after.provider = matchers[P]

\* A page with a Klaviyo form, the Klaviyo script and a Mailchimp form, to
\* which the Klaviyo onsite script is added: klaviyo goes from 80 to 90 and
\* mailchimp stays at 50.
C14_Witness ==
    /\ fout # NoOutput /\ fout.f = "after"
    /\ fin.html = <<"mc_form", "kl_form", "kl_static">>
    /\ fin.added = "kl_onsite"
    /\ fout.before.confidence[2] = 80
    /\ fout.after.confidence[2] = 90
    /\ fout.after.confidence[1] = 50
    /\ fout.after.provider = "klaviyo"


(***************************************************************************)
(* Properties of the provider submitters, checked under SpecSubmit.        *)
(***************************************************************************)

SubmitterReturned ==
    fout # NoOutput /\ fin.f \in {"submitMailchimp", "submitKlaviyo",
                                   "submitGenericProvider"}

\* The text the submitter puts in front of the failure message.
FailurePrefix(f) ==
    CASE f = "submitMailchimp" -> "Mailchimp POST failed: "
      [] f = "submitKlaviyo" -> "Klaviyo POST failed: "
      [] OTHER -> "Generic provider POST failed: "

\* C15: a call of submitMailchimp, submitKlaviyo or submitGenericProvider
\* never raises and sends its one request, a POST to the endpoint it was
\* given carrying the email; a network failure gives success = FALSE with
\* the failure message in the evidence; a response gives success = TRUE
\* exactly when its status is in [200, 400), whether or not its body could
\* be read.
C15_SubmittersOneRequestNeverRaise ==
    SubmitterReturned =>
        /\ ~fout.raised
        /\ fout.request # NoRequest
        /\ fout.request.submitter = fin.f
        /\ fout.request.endpoint = fin.endpoint
        /\ \E k \in DOMAIN fout.request.fields :
               fout.request.fields[k] = fin.email
        /\ fin.reply.failed =>
               /\ fout.result.success = FALSE
               /\ fout.result.evidence = FailurePrefix(fin.f) \o fin.reply.message
        /\ ~fin.reply.failed =>
               fout.result.success
                   = (fin.reply.status >= 200 /\ fin.reply.status < 400)

\* A status-399 response whose body could not be read: still a success.
C15_Witness ==
    /\ SubmitterReturned
    /\ ~fin.reply.failed
    /\ fin.reply.status = 399
    /\ fin.reply.text = NULL
    /\ fout.result.success


(***************************************************************************)
(* Pacing of handleSubscribeBatch, checked under Spec on the trace of the  *)
(* call: its pauses, website fetches and submission POSTs in order.        *)
(***************************************************************************)

\* The positions of the trace where a request leaves for a third party.
OutboundRequests == {k \in 1..Len(trace) : trace[k].ev \in {"fetch", "post"}}

\* A pause of the same item completed before position k and after every
\* earlier outbound request.
PausedBefore(k) ==
    \E j \in 1..(k - 1) :
        /\ trace[j].ev = "sleep"
        /\ trace[j].item = trace[k].item
        /\ \A m \in (j + 1)..(k - 1) : m \notin OutboundRequests

\* C16: every outbound request of a batch, website fetch or submission
\* POST, is preceded in the processing of its item by a pause that
\* completed after the previous outbound request: 800 ms before a Tier 2
\* website fetch, 200 ms before a Tier 1 submission.
C16_EveryRequestPaced ==
    \A k \in OutboundRequests :
        /\ PausedBefore(k)
        /\ trace[k].ev = "fetch" =>
               \E j \in 1..(k - 1) : /\ trace[j].ev = "sleep"
                                      /\ trace[j].item = trace[k].item
                                      /\ trace[j].ms = 800


(***************************************************************************)
(* Tier 1 and the persisted parameters, checked under SpecPersisted.       *)
(***************************************************************************)

\* The items whose processing took the Tier 1 branch.
Tier1Taken ==
    {i \in 1..Len(items) :
        \E k \in ItemEvents(i, "sleep") : trace[k].ms = 200}

\* The persisted text of item i's row does not deserialize to a value.
Undeserializable(i) ==
    LET text == getEnrichment(enrichment, items[i].restaurant_id)
                    .newsletter_extracted_params
    IN  text = "{not json"

\* C17: whatever text the newsletter_extracted_params column holds, a Tier 1
\* attempt is not aborted: no submitter raises, and a Tier 1 item that no
\* store failure interrupted ends with one POST and one row tagged
\* tier1_direct; when the text does not deserialize, the POST carries the
\* email and no other field.
C17_PersistedParamsNeverAbort ==
    /\ bpc # "raised"
    /\ \A i \in Tier1Taken :
          /\ Processed(i) =>
                /\ Cardinality(ItemEvents(i, "post")) = 1
                /\ Cardinality(RowsOf(i)) = 1
                /\ attempts[i].tier = "tier1_direct"
          /\ \A k \in ItemEvents(i, "post") :
                Undeserializable(i) =>
                    Cardinality(DOMAIN trace[k].request.fields) = 1


(***************************************************************************)
(* Properties of extractNewsletterCandidates, checked under SpecExtract.   *)
(***************************************************************************)

ExtractReturned == fout # NoOutput /\ fin.f = "extractNewsletterCandidates"

\* The surface that found a candidate, in the order the scans run.
SurfaceOf(c) ==
    CASE c.source = "form_action" /\ c.url # "#actionless-email-form" -> 1
      [] c.source = "form_action" -> 2
      [] c.source = "link" -> 3
      [] c.source = "embed" -> 4
      [] c.source = "script_tag" -> 5
      [] OTHER -> 6

\* c was found before d: by an earlier surface, or by the same surface
\* earlier in the document.
ScannedBefore(c, d) ==
    \/ SurfaceOf(c) < SurfaceOf(d)
    \/ SurfaceOf(c) = SurfaceOf(d) /\ c.index < d.index

\* C18: the list extractNewsletterCandidates returns holds the candidates of
\* the scan, each once, in descending order of final score, and candidates
\* of equal score in scan order: forms with action, actionless forms,
\* links, embeds, script tags, inline scripts, and document order within a
\* surface.
C18_SortedStable ==
    ExtractReturned =>
        /\ Len(fout.result) = Len(ScanAll(fin.html, 6))
        /\ \A k \in 1..Len(ScanAll(fin.html, 6)) :
              \E i \in 1..Len(fout.result) :
                  fout.result[i] = FooterWeighted(ScanAll(fin.html, 6)[k])
        /\ \A i, j \in 1..Len(fout.result) :
              i < j =>
                /\ fout.result[i].score >= fout.result[j].score
                /\ fout.result[i].score = fout.result[j].score
                      => ScannedBefore(fout.result[i], fout.result[j])

\* Two candidates of equal score, the later one in the document found first:
\* a link behind an embed.
C18_Witness ==
    /\ ExtractReturned
    /\ \E i, j \in 1..Len(fout.result) :
          /\ i < j
          /\ fout.result[i].score = fout.result[j].score
          /\ fout.result[i].index > fout.result[j].index


(***************************************************************************)
(* Properties of POST /api/subscribe, checked under SpecSubscribeApi.      *)
(***************************************************************************)

\* The enriched restaurants the body of the request selects.
MatchingRestaurants ==
    FilterByIds(getRestaurantsWithEnrichment(restaurants, enrichment),
                hbody.restaurant_ids)

\* The request has been read and selects no item: no items in the body,
\* and no email or no enriched restaurant that matches.
NoItemsSelected ==
    /\ hbody # NoBody
    /\ hbody.items = <<>>
    /\ ~Truthy(hbody.email) \/ MatchingRestaurants = <<>>

\* The item list has come out empty: the handler is past the query of the
\* store, if it needed one, and the query did not reject.
EmptyItemList ==
    /\ NoItemsSelected
    /\ hpc = "done"
    /\ hresp.status # 500

\* No step of the subscription pipeline has been taken.
PipelineNotRun ==
    /\ bpc = "idle"
    /\ trace = <<>>
    /\ attempts = <<>>

\* C19: when the item list of a POST /api/subscribe comes out empty, the
\* response is 400; a request that selects no item never runs the
\* pipeline (handleSubscribeBatch is not called, no outbound request is
\* made, no attempt row is logged), is answered at once when it has no
\* email, and is answered 500 only when the query of the store rejected;
\* and a request answered 400 has never run the pipeline.
C19_EmptyItemListIs400 ==
    /\ EmptyItemList => hresp.status = 400
    /\ NoItemsSelected =>
          /\ PipelineNotRun
          /\ hpc \in {"done", "s_query"}
          /\ ~Truthy(hbody.email) => hpc = "done" /\ hresp.status = 400
          /\ hresp.status = 500 => Truthy(hbody.email)
    /\ hresp.status = 400 => PipelineNotRun

\* An email and no items, with restaurants imported of which none is
\* enriched with a newsletter: answered 400.
C19_Witness ==
    /\ EmptyItemList
    /\ Truthy(hbody.email)
    /\ restaurants # <<>>
    /\ hresp.status = 400


(***************************************************************************)
(* Properties of POST /api/enrich, checked under SpecEnrichApi.            *)
(***************************************************************************)

\* The request has been read and carries no explicit items.
WithoutExplicitItems == hbody # NoBody /\ hbody.items = <<>>

\* A call of enrichRestaurant is under way; its upsert is still to come.
Enriching == epc \in {"sleep", "fetch", "text", "upsert"}

\* The restaurant is in the restaurants table with a website URL.
HasWebsite(restaurantId) ==
    \E k \in 1..Len(restaurants) :
        /\ restaurants[k].id = restaurantId
        /\ restaurants[k].website_url # NULL

\* The restaurant is among the restaurant_ids of the body, if it has any.
Requested(restaurantId) ==
    \/ hbody.restaurant_ids = <<>>
    \/ \E k \in 1..Len(hbody.restaurant_ids) :
          hbody.restaurant_ids[k] = restaurantId

\* No restaurant is to be enriched and none has been.
EmptyTargetSet ==
    /\ WithoutExplicitItems
    /\ ecalls = 0
    /\ \A k \in 1..Len(restaurants) :
          \/ restaurants[k].website_url = NULL
          \/ RowCount(enrichment, restaurants[k].id) > 0
          \/ ~Requested(restaurants[k].id)

\* C20: a POST /api/enrich without explicit items calls enrichRestaurant
\* only for restaurants that have a website URL, have no enrichment row and
\* are among the restaurant_ids when these are given, so that a restaurant
\* with a row is never enriched again; when no restaurant qualifies no call
\* is made and no website fetched, and the response, unless the query of
\* the store rejected, is 200 with enriched = 0.
C20_EnrichOnlyUnenriched ==
    /\ WithoutExplicitItems /\ Enriching =>
          /\ HasWebsite(erid)
          /\ RowCount(enrichment, erid) = 0
          /\ Requested(erid)
    /\ EmptyTargetSet =>
          /\ epc = "idle"
          /\ eobs = <<>>
          /\ hpc \in {"e_query", "done"}
          /\ hpc = "done" /\ hresp.status # 500 =>
                /\ hresp.status = 200
                /\ hresp.enriched = 0
                /\ hresp.results = <<>>

\* Two restaurants with a website, one of them enriched before: the
\* request has enriched the other one alone.
C20_Witness ==
    /\ WithoutExplicitItems
    /\ hbody.restaurant_ids = <<>>
    /\ Len(restaurants) = 2
    /\ \A k \in 1..Len(restaurants) : restaurants[k].website_url # NULL
    /\ hpc = "done"
    /\ hresp.status = 200
    /\ hresp.enriched = 1
    /\ \A k \in 1..Len(restaurants) : RowCount(enrichment, restaurants[k].id) = 1


(***************************************************************************)
(* Properties of Tier 2, checked under SpecTier2 on the trace of the call. *)
(***************************************************************************)

\* The positions at which item i's website body was read, not empty and
\* free of CAPTCHA markers.
CleanBodies(i) ==
    {k \in ItemEvents(i, "text") :
        trace[k].html # <<>> /\ ~CaptchaSignals(trace[k].html)}

\* Item i is past the point at which its submission, if any, is posted.
PastPost(i) == i < idx \/ (i = idx /\ bpc # "t2_post")

\* The request the provider dispatch of Tier 1 sends for a detection.
DispatchRequest(detection, email) ==
    tier1Submit(detection.provider, detection.directEndpoint,
                detection.extractedParams, email,
                [failed |-> TRUE, message |-> "", status |-> 0, text |-> NULL]).request

\* The generic form POST to a URL with the single field email.
GenericRequest(url, email) ==
    [submitter |-> "submitGenericProvider", endpoint |-> url,
     fields |-> [f \in {"email"} |-> email]]

\* C21: for a Tier 2 item whose website body was read and shows no CAPTCHA
\* marker: when the fresh classification has a provider and a direct
\* endpoint, the one submission is the request the Tier 1 dispatch sends
\* for that provider, endpoint and parameters; otherwise, when the
\* extractor finds a candidate, it is a generic POST with the single field
\* email to the top candidate's URL; otherwise nothing is posted and the
\* item ends failed, tagged tier2_form, with the no-form evidence.
C21_Tier2SubmissionChoice ==
    \A i \in 1..Len(items) : \A k \in CleanBodies(i) :
        IF /\ Truthy(detectNewsletterProvider(trace[k].html).directEndpoint)
           /\ Truthy(detectNewsletterProvider(trace[k].html).provider)
        THEN /\ PastPost(i) => Cardinality(ItemEvents(i, "post")) = 1
             /\ \A m \in ItemEvents(i, "post") :
                   trace[m].request
                     = DispatchRequest(detectNewsletterProvider(trace[k].html),
                                       items[i].email)
        ELSE IF Len(extractNewsletterCandidates(trace[k].html)) > 0
        THEN /\ PastPost(i) => Cardinality(ItemEvents(i, "post")) = 1
             /\ \A m \in ItemEvents(i, "post") :
                   trace[m].request
                     = GenericRequest(extractNewsletterCandidates(trace[k].html)[1].url,
                                      items[i].email)
        ELSE /\ ItemEvents(i, "post") = {}
             /\ Processed(i) =>
                   /\ attempts[i].tier = "tier2_form"
                   /\ attempts[i].success = FALSE
                   /\ attempts[i].evidence = "No newsletter form found on website"

\* A page with a provider but no direct endpoint and a sign-up form: the
\* generic POST went to the form.
C21_Witness ==
    \E i \in 1..Len(items) : \E k \in CleanBodies(i) :
        /\ Truthy(detectNewsletterProvider(trace[k].html).provider)
        /\ ~Truthy(detectNewsletterProvider(trace[k].html).directEndpoint)
        /\ Processed(i)
        /\ \E m \in ItemEvents(i, "post") :
              trace[m].request = GenericRequest("/signup", items[i].email)


\* The website fetch of item i rejected or came back with a status that is
\* not a success.
FetchNotOk(i) ==
    \E k \in ItemEvents(i, "fetch") : ~ResponseOk(trace[k].status)

\* The body of item i's website could not be read, or was empty.
BodyUnread(i) ==
    \E k \in ItemEvents(i, "text") : trace[k].html = <<>>

\* C22: a Tier 2 item whose website fetch failed or was answered with a
\* non-success status, or whose body could not be read or was empty, is
\* neither classified nor scanned for candidates, posts nothing, and ends
\* with a failed result tagged tier2_form, never tier3_needs_manual; after
\* a failed fetch the body is not read either.
C22_Tier2FetchFailureTerminal ==
    \A i \in 1..Len(items) :
        FetchNotOk(i) \/ BodyUnread(i) =>
            /\ ItemEvents(i, "detect") = {}
            /\ ItemEvents(i, "extract") = {}
            /\ ItemEvents(i, "post") = {}
            /\ FetchNotOk(i) => ItemEvents(i, "text") = {}
            /\ i < idx \/ bpc \in {"log", "push", "returned", "thrown"}
            /\ i = idx /\ bpc = "log" =>
                  pending.tier = "tier2_form" /\ pending.success = FALSE
            /\ Processed(i) =>
                  /\ attempts[i].tier = "tier2_form"
                  /\ attempts[i].success = FALSE
            /\ i <= Len(results) =>
                  /\ results[i].tier = "tier2_form"
                  /\ results[i].success = FALSE

\* A website answered 200 with a body that was empty or could not be read:
\* the item is logged as a failed tier2_form attempt.
C22_Witness ==
    \E i \in 1..Len(items) :
        /\ BodyUnread(i)
        /\ \E k \in ItemEvents(i, "fetch") : trace[k].status = 200
        /\ Processed(i)
        /\ attempts[i].tier = "tier2_form"


(***************************************************************************)
(* Properties of the provider dispatch, checked under SpecDispatch.        *)
(***************************************************************************)

\* The fixed mapping from provider name to email field name.
MappedEmailField(provider) ==
    CASE provider = "constant_contact" -> "email"
      [] provider = "mailerlite" -> "fields[email]"
      [] provider = "beehiiv" -> "email"
      [] provider = "substack" -> "email"
      [] OTHER -> "email"

\* C23: tier1Submit hands mailchimp, klaviyo and squarespace to their own
\* submitters and every other provider name to submitGenericProvider, whose
\* request then carries one field, the email, under the name the fixed
\* mapping gives for the provider, and under email when the mapping has no
\* entry for it.
C23_DispatchByProviderName ==
    fout # NoOutput /\ fin.f = "tier1Submit" =>
        /\ fout.request.endpoint = fin.endpoint
        /\ fout.request.submitter =
              (CASE fin.provider = "mailchimp" -> "submitMailchimp"
                 [] fin.provider = "klaviyo" -> "submitKlaviyo"
                 [] fin.provider = "squarespace" -> "submitSquarespace"
                 [] OTHER -> "submitGenericProvider")
        /\ fin.provider \notin {"mailchimp", "klaviyo", "squarespace"} =>
              fout.request.fields
                = [f \in {MappedEmailField(fin.provider)} |-> fin.email]


(***************************************************************************)
(* Duplicates among the candidates, checked under SpecExtract.             *)
(***************************************************************************)

\* C24: the list extractNewsletterCandidates returns holds no two
\* candidates that the same surface found with the same URL.
C24_DedupWithinSurface ==
    ExtractReturned =>
        \A i, j \in 1..Len(fout.result) :
            i < j /\ SurfaceOf(fout.result[i]) = SurfaceOf(fout.result[j])
                => fout.result[i].url # fout.result[j].url


(***************************************************************************)
(* Where the candidate extractor is used, checked under SpecPipeline.      *)
(***************************************************************************)

\* The positions at which item i's website body was read and not empty.
ReadBodies(i) == {k \in ItemEvents(i, "text") : trace[k].html # <<>>}

\* The restaurants whose latest enrichRestaurant call returned after
\* classifying a page.
Classified == {r \in RestaurantIds :
                  elast[r].returned /\ ClassifiedHtml(elast[r].observed) # <<>>}

\* The URL of the top candidate of a page, null when there is none.
TopCandidateUrl(html) ==
    IF Len(extractNewsletterCandidates(html)) > 0
    THEN extractNewsletterCandidates(html)[1].url ELSE NULL

\* The snippet enrichRestaurant keeps of the top candidate of a page.
TopCandidateFormHtml(html) ==
    IF Len(extractNewsletterCandidates(html)) > 0
    THEN OrElse(Slice(extractNewsletterCandidates(html)[1].formHtml, 5000), NULL)
    ELSE NULL

\* C25 as stated: whenever the classifier returns a provider, Tier 2 does
\* not run the extractor on the page, and the row enrichment leaves holds
\* nothing that came from a candidate: its newsletter_url is the direct
\* endpoint (or null) and it has no form snippet.
C25_ExtractorOnlyWithoutPlatform ==
    /\ \A i \in 1..Len(items) : \A k \in ReadBodies(i) :
          Truthy(detectNewsletterProvider(trace[k].html).provider) =>
              ItemEvents(i, "extract") = {}
    /\ \A r \in Classified :
          Truthy(detectNewsletterProvider(ClassifiedHtml(elast[r].observed)).provider) =>
              /\ getEnrichment(enrichment, r).newsletter_url =
                    detectNewsletterProvider(ClassifiedHtml(elast[r].observed)).directEndpoint
              /\ getEnrichment(enrichment, r).newsletter_form_html = NULL

\* C25, amended: what keeps a candidate out is a direct endpoint, not a
\* provider. Tier 2 runs the extractor on a page it read exactly when the
\* page shows no CAPTCHA marker and the classifier did not return both a
\* provider and a direct endpoint, and when it did not run, whatever is
\* posted is the provider dispatch of the detection. The row enrichment
\* leaves holds as newsletter_url the direct endpoint when there is one and
\* the top candidate's URL otherwise, and as form snippet the top
\* candidate's, whatever the provider.
C25_ExtractorUnlessEndpoint ==
    /\ \A i \in 1..Len(items) : \A k \in ReadBodies(i) :
          /\ ItemEvents(i, "extract") # {} <=>
                /\ ~CaptchaSignals(trace[k].html)
                /\ ~(/\ Truthy(detectNewsletterProvider(trace[k].html).directEndpoint)
                     /\ Truthy(detectNewsletterProvider(trace[k].html).provider))
          /\ ItemEvents(i, "extract") = {} =>
                \A m \in ItemEvents(i, "post") :
                    trace[m].request
                      = DispatchRequest(detectNewsletterProvider(trace[k].html),
                                        items[i].email)
    /\ \A r \in Classified :
          /\ getEnrichment(enrichment, r).newsletter_url =
                OrElse(detectNewsletterProvider(ClassifiedHtml(elast[r].observed)).directEndpoint,
                       TopCandidateUrl(ClassifiedHtml(elast[r].observed)))
          /\ getEnrichment(enrichment, r).newsletter_form_html =
                TopCandidateFormHtml(ClassifiedHtml(elast[r].observed))

\* Enrichment classified a page with a provider, no direct endpoint and a
\* sign-up form and stored the form's URL; the batch then took Tier 2,
\* read such a page again, ran the extractor and posted to the form.
C25_Witness ==
    /\ \E r \in Classified :
          /\ Truthy(getEnrichment(enrichment, r).newsletter_provider)
          /\ getEnrichment(enrichment, r).newsletter_direct_endpoint = NULL
          /\ getEnrichment(enrichment, r).newsletter_url = "/signup"
          /\ Truthy(getEnrichment(enrichment, r).newsletter_form_html)
    /\ \E i \in 1..Len(items) : \E k \in ReadBodies(i) :
          /\ Truthy(detectNewsletterProvider(trace[k].html).provider)
          /\ ItemEvents(i, "extract") # {}
          /\ Processed(i)
          /\ \E m \in ItemEvents(i, "post") : trace[m].request.endpoint = "/signup"


(***************************************************************************)
(* The endpoint of one matcher, checked under SpecMatcher.                 *)
(***************************************************************************)

\* The URL of the first signal of the list that the page has, null when it
\* has none of them.
RECURSIVE FirstUrl(_, _)
FirstUrl(html, signals) ==
    IF signals = <<>> THEN NULL
    ELSE IF Test(html, {Head(signals)}) THEN MatchUrl(html, {Head(signals)})
    ELSE FirstUrl(html, Tail(signals))

\* The signals of a platform that carry a URL, in the order form action,
\* embed or script source, plain link.
ByPriority(name) ==
    CASE name = "constant_contact" -> <<"cc_form", "cc_embed", "cc_link">>
      [] name = "mailerlite"       -> <<"ml_form", "ml_script">>
      [] name = "beehiiv"          -> <<"bh_form", "bh_embed", "bh_link">>
      [] name = "substack"         -> <<"ss_embed", "ss_link">>

\* The signals whose URL each matcher captures, in the order it takes them.
AsCaptured(name) ==
    CASE name = "constant_contact" -> <<"cc_form", "cc_embed">>
      [] name = "mailerlite"       -> <<"ml_form">>
      [] name = "beehiiv"          -> <<"bh_form", "bh_embed", "bh_link">>
      [] name = "substack"         -> <<"ss_link", "ss_embed">>

\* The endpoint a matcher makes of the URL it took: Substack's is rewritten
\* into the subscribe API of the URL's subdomain.
EndpointFrom(name, url) == IF name = "substack" THEN SubstackApi(url) ELSE url

\* matcher.detect has returned.
MatcherReturned == fout # NoOutput /\ fout.f = "matcher.detect"

\* C26 as stated: the endpoint of each of the four matchers comes from the
\* first URL present in the order form action, embed source, plain link.
C26_EndpointByPriority ==
    MatcherReturned =>
        fout.result.endpoint
          = EndpointFrom(fin.name, FirstUrl(fin.html, ByPriority(fin.name)))

\* C26, amended: each matcher takes the first URL present in its own
\* order of the signals it captures a URL from: Constant Contact form
\* action then embed source (never the link), MailerLite the form action
\* only, Beehiiv form action, embed source, link, and Substack the link
\* before the embed source; with none of them the endpoint is null.
C26_EndpointByMatcherOrder ==
    MatcherReturned =>
        fout.result.endpoint
          = EndpointFrom(fin.name, FirstUrl(fin.html, AsCaptured(fin.name)))

\* The Substack matcher on a page with a link and an embed of different
\* subdomains: the endpoint is the subscribe API of the link's.
C26_Witness ==
    /\ MatcherReturned
    /\ fin.name = "substack"
    /\ Test(fin.html, {"ss_link"}) /\ Test(fin.html, {"ss_embed"})
    /\ fout.result.endpoint = "https://foo.substack.com/api/v1/free"


(***************************************************************************)
(* Further properties of handleSubscribeBatch, checked under Spec.         *)
(***************************************************************************)

\* handleSubscribeBatch rejected while item idx was at a store call.
Rejected == bpc = "thrown"

\* Nothing was done for item i: none of its awaits is in the history.
Untouched(i) == \A k \in 1..Len(trace) : trace[k].item # i

\* What holds once the call has rejected at item idx: nothing was returned,
\* the items after it were not touched, and each item before it has its row
\* in the log and its result in the list that is lost.
AbortedAt ==
    /\ returned = <<>>
    /\ \A i \in (idx + 1)..Len(items) : Untouched(i)
    /\ Len(attempts) = idx - 1
    /\ Len(results) = idx - 1
    /\ \A i \in 1..(idx - 1) :
          /\ attempts[i].restaurant_id = items[i].restaurant_id
          /\ ItemEvents(i, "log") # {}

\* C27: a lookup or a log write that fails makes handleSubscribeBatch fail
\* as a whole. An item gets past its lookup only when the lookup answered
\* and to its push only when its row was written; once the call has
\* rejected, nothing more happens, no later item was touched, nothing is
\* returned, and the rows of the earlier items are still in the log.
C27_StoreFailureAbortsBatch ==
    /\ [](/\ Rejected => AbortedAt
          /\ bpc \notin {"idle", "lookup", "thrown", "returned"} =>
                ItemEvents(idx, "lookup") # {}
          /\ bpc = "push" => Len(attempts) = idx /\ ItemEvents(idx, "log") # {})
    /\ [][~Rejected]_vars

\* The log write of the second item was rejected after the first item was
\* submitted, logged and pushed: the call rejected with the first item's
\* row in the log and nothing returned.
C27_Witness ==
    /\ Rejected
    /\ idx = 2
    /\ ItemEvents(2, "lookup") # {}
    /\ ItemEvents(1, "post") # {}
    /\ Len(attempts) = 1
    /\ Len(results) = 1
    /\ returned = <<>>


\* handleSubscribeBatch has returned its results.
BatchReturned == bpc = "returned"

\* The history is in item order, and an item's first await directly follows
\* the push of the item before it, which directly follows its log write.
OneAfterAnother ==
    \A k \in 1..Len(trace) :
        IF k = 1 THEN trace[k].item = 1
        ELSE \/ trace[k].item = trace[k - 1].item
             \/ /\ trace[k].item = trace[k - 1].item + 1
                /\ trace[k - 1].ev = "push"
                /\ k > 2
                /\ trace[k - 2].ev = "log"
                /\ trace[k - 2].item = trace[k - 1].item

\* C28: when handleSubscribeBatch returns, the results are as many as the
\* items and in their order: the i-th result has the i-th item's
\* restaurant_id and the tier, success and evidence of the row logged for
\* that item; and at every moment the items were handled one after
\* another, none starting before the row of the one before it was logged.
C28_ResultsMirrorItems ==
    /\ OneAfterAnother
    /\ BatchReturned =>
          /\ Len(returned) = Len(items)
          /\ Len(attempts) = Len(items)
          /\ \A i \in 1..Len(items) :
                /\ returned[i].restaurant_id = items[i].restaurant_id
                /\ attempts[i].restaurant_id = items[i].restaurant_id
                /\ attempts[i].email = items[i].email
                /\ returned[i].tier = attempts[i].tier
                /\ returned[i].success = attempts[i].success
                /\ returned[i].evidence = attempts[i].evidence

\* A batch of two restaurants returned: the first went through Tier 1 and
\* failed, the second through Tier 2 and succeeded.
C28_Witness ==
    /\ BatchReturned
    /\ Len(items) = 2
    /\ items[1].restaurant_id # items[2].restaurant_id
    /\ returned[1].tier = "tier1_direct" /\ ~returned[1].success
    /\ returned[2].tier = "tier2_form" /\ returned[2].success


(***************************************************************************)
(* The stores each half of the pipeline writes, checked under SpecPipeline.*)
(***************************************************************************)

\* A step of handleSubscribeBatch, and a step of enrichRestaurant.
BatchStep == batchVars' # batchVars
EnrichStep == enrichVars' # enrichVars

\* C29: no step of handleSubscribeBatch changes the enrichment table,
\* whatever Tier 2 finds on the page it fetches, and no step of
\* enrichRestaurant changes the attempt log.
C29_EachWritesItsOwnStore ==
    [][/\ BatchStep => enrichment' = enrichment
       /\ EnrichStep => attempts' = attempts]_vars

\* Enrichment left r1 a row with a provider and no direct endpoint; the
\* batch then took Tier 2, found the page with another provider and a
\* direct endpoint and submitted to it: the row is as enrichment left it,
\* and the log has the one row of the batch.
C29_Witness ==
    /\ elast["r1"].returned
    /\ ClassificationFields(enrichment, "r1") = elast["r1"].fields
    /\ Truthy(getEnrichment(enrichment, "r1").newsletter_provider)
    /\ bpc = "returned"
    /\ Len(items) = 1
    /\ items[1].restaurant_id = "r1"
    /\ Len(attempts) = 1
    /\ \E k \in ReadBodies(1) :
          /\ Truthy(detectNewsletterProvider(trace[k].html).directEndpoint)
          /\ Truthy(detectNewsletterProvider(trace[k].html).provider)
          /\ detectNewsletterProvider(trace[k].html).provider
               # getEnrichment(enrichment, "r1").newsletter_provider
          /\ attempts[1].provider = detectNewsletterProvider(trace[k].html).provider


(***************************************************************************)
(* The outbound requests of one item, checked under SpecPersisted: the     *)
(* batch against rows with every kind of persisted parameter text.         *)
(***************************************************************************)

\* The items whose processing took the Tier 2 branch.
Tier2Taken ==
    {i \in 1..Len(items) :
        \E k \in ItemEvents(i, "sleep") : trace[k].ms = 800}

\* The handling of item i is over: its outcome is settled, or the call
\* ended on it.
HandlingOver(i) ==
    i < idx \/ (i = idx /\ bpc \in {"log", "push", "returned", "thrown", "raised"})

\* The POST at position m of item i follows a website fetch of the item
\* that was answered with a success status and a read of its body that was
\* not empty and showed no CAPTCHA marker.
AfterCleanPage(i, m) ==
    \E f \in ItemEvents(i, "fetch") : \E t \in ItemEvents(i, "text") :
        /\ f < t /\ t < m
        /\ ResponseOk(trace[f].status)
        /\ trace[t].html # <<>>
        /\ ~CaptchaSignals(trace[t].html)

====
